---- MODULE Spec2Model ----
(***************************************************************************)
(* Projector Mirror: the aspect-locked region editor of                    *)
(* projector_mirror_simple_v3.py (Qt, rect = x, y, width, height) and of   *)
(* projector_mirror_tk_v2.py (Tk, rect = x1, y1, x2, y2), and the          *)
(* capture / presentation pipeline of projector_mirror_tk_v2.py and        *)
(* projector_mirror_tk_fast.py around the single frame slot.               *)
(*                                                                         *)
(* The aspect ratio is the rational n/d.  Every ratio the model uses gives *)
(* the same int() and round() results in IEEE double arithmetic as in      *)
(* exact rational arithmetic for all pixel values below 6000, so the       *)
(* float expressions of the source are computed exactly.                   *)
(***************************************************************************)
EXTENDS Integers, Sequences, FiniteSets, TLC

VARIABLES
    variant,        \* which script runs: "v3", "tk_v2" or "tk_fast"
    W, H,           \* v3: self.width(), self.height(); Tk: proj_m width, height
    aspect,         \* self.aspect, the rational [n, d]
    rect,           \* v3: QRect [x, y, w, h]; Tk: [x1, y1, x2, y2]
    rect0,          \* history: the rect as __init__ set it
    dragging,       \* v3 self.dragging
    resizing,       \* v3 self.resizing
    resize_anchor,  \* v3 self.resize_anchor ("none" is None)
    drag_offset,    \* v3 self.drag_offset
    dragging_mode,  \* Tk self.dragging_mode ("none" is None)
    prev_mouse,     \* Tk self.prev_mouse
    mirroring,      \* v3 self.mirror_mode, Tk self.mirroring
    closed,         \* the window was closed / destroyed (Esc, Q)
    lbutton,        \* environment: the left mouse button is held down
    last,           \* history: the last call that assigned self.rect
    nOps,           \* history: pointer moves that moved or resized the rect
    stop_flag,      \* Tk self.stop_flag
    image_id,       \* Tk self.image_id: the canvas image item and its coords
    latest_img,     \* Tk self._latest_img / self._latest_bgr: the frame slot
    frame_lock,     \* Tk self._frame_lock: "free", or the thread holding it
    tk_frame,       \* Tk self.tk_frame: the frame on the canvas
    cap_pc,         \* capture thread: where it is in capture_loop
    cap_img,        \* capture thread: its local img / bgr
    ui_pc,          \* main thread: where it is in ui_update_loop
    ui_img,         \* main thread: its local img / bgr
    nGrabs,         \* history: grab calls issued
    fails,          \* history: failed grabs in a row, up to now
    backoff_ms,     \* history: the sleep after the last failed grab, in ms
    stop_pubs,      \* history: frames stored since the stop flag was set
    sct,            \* Qt self.sct ("none" is None)
    frame_img,      \* Qt: v3 self.frame_img, projector_mirror.py viewer._frame
    timer_on,       \* Qt: self.timer is active
    timer_interval, \* Qt: the timer's interval in ms
    paused,         \* projector_mirror.py self.paused
    fps,            \* self.fps / self.target_fps (0: the script has none)
    cap_interval,   \* capture thread: its local interval is 1 / cap_interval s
    pace,           \* history: the pacing step that ended the last cycle
    handle_made_by, \* threaded scripts: the thread that made the capture handle
    handle_used_by, \* history: the threads that have called the capture handle
    monitors,       \* mss().monitors: [0] the virtual desktop, [1:] physical
    screens,        \* projector_mirror.py: app.screens()
    primary_screen, \* projector_mirror.py: primaryScreen(), a position in screens
    phase,          \* where __init__ stands; "setup" once it is through
    error,          \* history: the configuration error met ("none": none)
    source_idx,     \* Tk self.source_idx (<<>> is unset)
    projector_idx,  \* Tk self.projector_idx / self.projector_index
    primary_idx,    \* primary_guess / primary_m / self.monitor_index
    win_screen,     \* projector_mirror.py: the screen the window is on
    published,      \* history: seq of the frame stored last (0: none yet)
    dropped,        \* history: frames overwritten in the slot before any read
    rendered        \* history: the frames of the draw calls, in order

\* the region editor
gestureVars == <<dragging, resizing, resize_anchor, drag_offset, dragging_mode,
                 prev_mouse, lbutton>>
\* the displays, and what __init__ chose among them
topoVars == <<monitors, screens, primary_screen, phase, error, source_idx,
              projector_idx, primary_idx, win_screen>>
configVars == <<variant, W, H, aspect, rect0, topoVars>>
editorVars == <<configVars, rect, gestureVars, mirroring, closed, last, nOps>>

\* the capture thread, the UI update loop and the slot between them
thrVars == <<cap_interval, pace, handle_made_by, handle_used_by>>
capHist == <<fails, backoff_ms, thrVars>>
capVars == <<cap_pc, cap_img, nGrabs, capHist>>
uiVars == <<ui_pc, ui_img, tk_frame, rendered>>
slotVars == <<latest_img, frame_lock, published, dropped, stop_pubs>>

\* the Qt timer pipelines, and the target rate
qtVars == <<sct, frame_img, timer_on, timer_interval, paused>>
\* what the key handlers set for the pipelines
ctlVars == <<stop_flag, image_id, qtVars, fps>>
pipeVars == <<ctlVars, capVars, uiVars, slotVars>>

vars == <<editorVars, pipeVars>>

-----------------------------------------------------------------------------
(* Bounds of the model *)

\* pointer moves that move or resize the rect, per session; once they are
\* used up the user starts no further gesture
MaxOps == 1

\* grab calls of the capture thread, per session
MaxGrabs == 3

\* draw calls of schedule_frame_draw that show a frame, per session
MaxDraws == 2

\* pointer moves that move or resize the rect, per session of the Tk editor
\* on its own
MaxDrags == 3

(* Program constants *)
HANDLE_SIZE == 14
V3_MIN == 50
V3_FLOOR_H == 200
HANDLE == 10
MIN_W == 80
MIN_H == 45
TK_FLOOR_H == 200
FAST_FLOOR_H == 240

-----------------------------------------------------------------------------
(* Python arithmetic *)

Max(a, b) == IF a >= b THEN a ELSE b
Min(a, b) == IF a <= b THEN a ELSE b
Abs(a) == IF a >= 0 THEN a ELSE -a

\* int(n / d) for d > 0: truncation toward zero
IntTrunc(n, d) == IF n >= 0 THEN n \div d ELSE -((-n) \div d)

\* int(round(n / d)) for d > 0: Python 3 rounds half to even
RoundHalfEven(n, d) ==
    LET q == n \div d
        r == n % d
    IN  IF 2 * r < d THEN q
        ELSE IF 2 * r > d THEN q + 1
        ELSE IF q % 2 = 0 THEN q ELSE q + 1

\* v * aspect and v / aspect as numerator and denominator
MulN(v, a) == v * a.n
MulD(v, a) == a.d
DivN(v, a) == v * a.d
DivD(v, a) == a.n

\* max(0.1, float(aspect))
AspectGuard(a) == IF 10 * a.n < a.d THEN [n |-> 1, d |-> 10] ELSE a

-----------------------------------------------------------------------------
(* The target rate *)

\* a decrease by the script's step that stops at 0
RateDownToZero(v, f) ==
    IF v = "pm" THEN Max(0, f - 5) ELSE Max(0, f - 10)

\* projector_mirror.py keyPressEvent Key_Plus, projector_mirror_tk_fast.py
\* on_key 'plus': the rate after an increase
RateUp(v, f) ==
    IF v = "pm" THEN Min(120, f + 5) ELSE Min(120, f + 10)

\* keyPressEvent Key_Minus, on_key 'minus': the rate after a decrease
RateDown(v, f) ==
    IF v = "pm" THEN Max(10, f - 5) ELSE Max(30, f - 10)

-----------------------------------------------------------------------------
(* The centered rectangle *)

\* a centered rect of one third of the window height, with no floor of 200
V3ResetRectThird(ww, hh, a) ==
    LET w == Max(1, ww)
        h == Max(1, hh)
        th0 == h \div 3
        tw0 == IntTrunc(MulN(th0, a), MulD(th0, a))
        tw == IF tw0 > w THEN Max(V3_MIN, w \div 2) ELSE tw0
        th == IF tw0 > w THEN IntTrunc(DivN(tw, a), DivD(tw, a)) ELSE th0
        x == Max(0, (w - tw) \div 2)
        y == Max(0, (h - th) \div 2)
    IN  [x |-> x, y |-> y, w |-> tw, h |-> th]

\* DragRectOverlay._reset_rect_centered
V3ResetRectCentered(ww, hh, a) ==
    LET w == Max(1, ww)
        h == Max(1, hh)
        th0 == Max(V3_FLOOR_H, h \div 3)
        tw0 == IntTrunc(MulN(th0, a), MulD(th0, a))
        tw == IF tw0 > w THEN Max(V3_MIN, w \div 2) ELSE tw0
        th == IF tw0 > w THEN IntTrunc(DivN(tw, a), DivD(tw, a)) ELSE th0
        x == Max(0, (w - tw) \div 2)
        y == Max(0, (h - th) \div 2)
    IN  [x |-> x, y |-> y, w |-> tw, h |-> th]

\* ProjectorMirrorApp.__init__ "Initial rect centered", and on_key 'r';
\* floor is 200 in projector_mirror_tk_v2.py, 240 in projector_mirror_tk_fast.py
TkCenteredRect(ww, hh, a, floor) ==
    LET rh0 == Max(floor, hh \div 3)
        rw0 == IntTrunc(MulN(rh0, a), MulD(rh0, a))
        rw == IF rw0 > ww THEN ww \div 2 ELSE rw0
        rh == IF rw0 > ww THEN IntTrunc(DivN(rw, a), DivD(rw, a)) ELSE rh0
        rx == (ww - rw) \div 2
        ry == (hh - rh) \div 2
    IN  [x1 |-> rx, y1 |-> ry, x2 |-> rx + rw, y2 |-> ry + rh]

-----------------------------------------------------------------------------
(* projector_mirror_simple_v3.py: hit test *)

\* QRect.contains(pos) for a rectangle of positive size: edges included
QRectContains(q, px, py) ==
    /\ q.x <= px /\ px <= q.x + q.w - 1
    /\ q.y <= py /\ py <= q.y + q.h - 1

\* QRect.left/top/right/bottom
QLeft(r) == r.x
QTop(r) == r.y
QRight(r) == r.x + r.w - 1
QBottom(r) == r.y + r.h - 1

\* DragRectOverlay._handle_rects
V3HandleRects(r) ==
    LET s == HANDLE_SIZE
        hr(cx, cy) == [x |-> cx - s \div 2, y |-> cy - s \div 2, w |-> s, h |-> s]
    IN  [tl |-> hr(QLeft(r), QTop(r)),
         tr |-> hr(QRight(r), QTop(r)),
         bl |-> hr(QLeft(r), QBottom(r)),
         br |-> hr(QRight(r), QBottom(r))]

\* a hit test that tries the body before the handles
V3HitTestBodyFirst(r, px, py) ==
    LET hs == V3HandleRects(r)
    IN  IF QRectContains(r, px, py) THEN "move"
        ELSE IF QRectContains(hs.tl, px, py) THEN "tl"
        ELSE IF QRectContains(hs.tr, px, py) THEN "tr"
        ELSE IF QRectContains(hs.bl, px, py) THEN "bl"
        ELSE IF QRectContains(hs.br, px, py) THEN "br"
        ELSE "none"

\* DragRectOverlay._hit_test: handles in dict order, then the body
V3HitTest(r, px, py) ==
    LET hs == V3HandleRects(r)
    IN  IF QRectContains(hs.tl, px, py) THEN "tl"
        ELSE IF QRectContains(hs.tr, px, py) THEN "tr"
        ELSE IF QRectContains(hs.bl, px, py) THEN "bl"
        ELSE IF QRectContains(hs.br, px, py) THEN "br"
        ELSE IF QRectContains(r, px, py) THEN "move"
        ELSE "none"

-----------------------------------------------------------------------------
(* projector_mirror_simple_v3.py: clamp helpers *)

\* a move that takes the requested top-left as it is
V3MoveRectUnclamped(r, nx, ny, ww, hh) ==
    [r EXCEPT !.x = nx, !.y = ny]

\* DragRectOverlay._move_rect_clamped
V3MoveRectClamped(r, nx, ny, ww, hh) ==
    LET x == Max(0, Min(nx, ww - r.w))
        y == Max(0, Min(ny, hh - r.h))
    IN  [r EXCEPT !.x = x, !.y = y]

\* _resize_with_aspect_clamped: the fixed corner
V3Fixed(r, anchor) ==
    CASE anchor = "tl" -> <<QRight(r), QBottom(r)>>
      [] anchor = "tr" -> <<QLeft(r), QBottom(r)>>
      [] anchor = "bl" -> <<QRight(r), QTop(r)>>
      [] OTHER         -> <<QLeft(r), QTop(r)>>

\* a candidate size that switches to the height as soon as the derived height
\* exceeds |dy|, without the floor of 50 in the comparison
V3CandidateSwitchAtDy(dx, dy, a) ==
    LET w0 == Max(V3_MIN, Abs(dx))
        h0 == RoundHalfEven(DivN(w0, a), DivD(w0, a))
    IN  IF Abs(h0) > Abs(dy)
        THEN LET h1 == Max(V3_MIN, Abs(dy))
             IN  <<RoundHalfEven(MulN(h1, a), MulD(h1, a)), h1>>
        ELSE <<w0, h0>>

\* _resize_with_aspect_clamped: "Candidate size from dx"
V3Candidate(dx, dy, a) ==
    LET w0 == Max(V3_MIN, Abs(dx))
        h0 == RoundHalfEven(DivN(w0, a), DivD(w0, a))
    IN  IF Abs(h0) > Max(V3_MIN, Abs(dy))
        THEN LET h1 == Max(V3_MIN, Abs(dy))
             IN  <<RoundHalfEven(MulN(h1, a), MulD(h1, a)), h1>>
        ELSE <<w0, h0>>

\* a size clamp with the window as upper limit and no lower limit
V3ClampSizeNoFloor(cand, ww, hh) ==
    <<Min(cand[1], ww), Min(cand[2], hh)>>

\* _resize_with_aspect_clamped: "Clamp size to window bounds"
V3ClampSize(cand, ww, hh) ==
    <<Max(V3_MIN, Min(cand[1], ww)), Max(V3_MIN, Min(cand[2], hh))>>

\* _resize_with_aspect_clamped: "Build unclamped new rect from fixed corner"
V3Place(anchor, fixed, dx, dy, size) ==
    LET sign_x == IF dx > 0 THEN 1 ELSE -1
        sign_y == IF dy > 0 THEN 1 ELSE -1
        new_w == size[1]
        new_h == size[2]
        fx == fixed[1]
        fy == fixed[2]
    IN  CASE anchor = "tl" -> <<fx - sign_x * new_w, fy - sign_y * new_h>>
          [] anchor = "tr" -> <<IF sign_x > 0 THEN fx - new_w ELSE fx,
                                fy - sign_y * new_h>>
          [] anchor = "bl" -> <<fx - sign_x * new_w,
                                IF sign_y > 0 THEN fy - new_h ELSE fy>>
          [] OTHER         -> <<IF sign_x > 0 THEN fx - new_w ELSE fx,
                                IF sign_y > 0 THEN fy - new_h ELSE fy>>

\* _resize_with_aspect_clamped: "Clamp position to keep rect within window"
V3ClampPos(p, size, ww, hh) ==
    <<Max(0, Min(p[1], ww - size[1])), Max(0, Min(p[2], hh - size[2]))>>

\* DragRectOverlay._resize_with_aspect_clamped: the new rect and the
\* candidate size it chose before clamping
V3ResizeWithAspectClamped(r, anchor, px, py, a, ww, hh) ==
    LET fixed == V3Fixed(r, anchor)
        dx == px - fixed[1]
        dy == py - fixed[2]
        cand == V3Candidate(dx, dy, a)
        size == V3ClampSize(cand, ww, hh)
        p == V3ClampPos(V3Place(anchor, fixed, dx, dy, size), size, ww, hh)
    IN  [rect |-> [x |-> p[1], y |-> p[2], w |-> size[1], h |-> size[2]],
         cand |-> cand, dx |-> dx, dy |-> dy, fixed |-> fixed]

-----------------------------------------------------------------------------
(* projector_mirror_tk_v2.py: hit test, move and corner resize *)

\* ProjectorMirrorApp.hit_test: corners in dict order, then the open body
TkHitTest(r, x, y) ==
    LET near(cx, cy) == Abs(x - cx) <= HANDLE /\ Abs(y - cy) <= HANDLE
    IN  IF near(r.x1, r.y1) THEN "tl"
        ELSE IF near(r.x2, r.y1) THEN "tr"
        ELSE IF near(r.x1, r.y2) THEN "bl"
        ELSE IF near(r.x2, r.y2) THEN "br"
        ELSE IF r.x1 < x /\ x < r.x2 /\ r.y1 < y /\ y < r.y2 THEN "move"
        ELSE "none"

\* a move that clamps each edge to the window on its own
TkMoveEdgeClamped(r, x, y, prev, ww, hh) ==
    LET dx == x - prev[1]
        dy == y - prev[2]
    IN  [x1 |-> Max(0, r.x1 + dx), y1 |-> Max(0, r.y1 + dy),
         x2 |-> Min(ww, r.x2 + dx), y2 |-> Min(hh, r.y2 + dy)]

\* on_mouse_drag, the 'move' branch; x, y are the clamped event coordinates
TkMove(r, x, y, prev, ww, hh) ==
    LET dx == x - prev[1]
        dy == y - prev[2]
        nx1 == Max(0, Min(r.x1 + dx, ww - (r.x2 - r.x1)))
        ny1 == Max(0, Min(r.y1 + dy, hh - (r.y2 - r.y1)))
    IN  [x1 |-> nx1, y1 |-> ny1,
         x2 |-> nx1 + (r.x2 - r.x1), y2 |-> ny1 + (r.y2 - r.y1)]

\* on_mouse_drag: the fixed corner fx, fy
TkFixed(r, mode) ==
    CASE mode = "tl" -> <<r.x2, r.y2>>
      [] mode = "tr" -> <<r.x1, r.y2>>
      [] mode = "bl" -> <<r.x2, r.y1>>
      [] OTHER       -> <<r.x1, r.y1>>

\* a candidate size without the floors MIN_W and MIN_H
TkCandidateNoMin(dx, dy, a) ==
    LET w0 == dx
        h0 == RoundHalfEven(DivN(w0, a), DivD(w0, a))
    IN  IF h0 > dy
        THEN <<RoundHalfEven(MulN(dy, a), MulD(dy, a)), dy>>
        ELSE <<w0, h0>>

\* on_mouse_drag: new_w, new_h from the distances dx, dy
TkCandidate(dx, dy, a) ==
    LET w0 == Max(MIN_W, dx)
        h0 == RoundHalfEven(DivN(w0, a), DivD(w0, a))
    IN  IF h0 > dy
        THEN LET h1 == Max(MIN_H, dy)
             IN  <<RoundHalfEven(MulN(h1, a), MulD(h1, a)), h1>>
        ELSE <<w0, h0>>

\* on_mouse_drag: the new rect around the fixed corner
TkPlace(mode, fixed, size, ww, hh) ==
    LET fx == fixed[1]
        fy == fixed[2]
        new_w == size[1]
        new_h == size[2]
    IN  CASE mode = "tl" -> [x1 |-> Max(0, fx - new_w), y1 |-> Max(0, fy - new_h),
                             x2 |-> fx, y2 |-> fy]
          [] mode = "tr" -> [x1 |-> fx, y1 |-> Max(0, fy - new_h),
                             x2 |-> Min(ww, fx + new_w), y2 |-> fy]
          [] mode = "bl" -> [x1 |-> Max(0, fx - new_w), y1 |-> fy,
                             x2 |-> fx, y2 |-> Min(hh, fy + new_h)]
          [] OTHER       -> [x1 |-> fx, y1 |-> fy,
                             x2 |-> Min(ww, fx + new_w), y2 |-> Min(hh, fy + new_h)]

\* on_mouse_drag, the resize branch: the new rect and the candidate size
TkResize(r, mode, x, y, a, ww, hh) ==
    LET fixed == TkFixed(r, mode)
        dx == Abs(x - fixed[1])
        dy == Abs(y - fixed[2])
        cand == TkCandidate(dx, dy, a)
    IN  [rect |-> TkPlace(mode, fixed, cand, ww, hh),
         cand |-> cand, dx |-> dx, dy |-> dy, fixed |-> fixed]

-----------------------------------------------------------------------------
(* Python text and sequences *)

\* a line typed at a prompt is a sequence of characters
DigitChars == {"0", "1", "2", "3", "4", "5", "6", "7", "8", "9"}

DigitVal(c) ==
    CASE c = "0" -> 0 [] c = "1" -> 1 [] c = "2" -> 2 [] c = "3" -> 3
      [] c = "4" -> 4 [] c = "5" -> 5 [] c = "6" -> 6 [] c = "7" -> 7
      [] c = "8" -> 8 [] OTHER -> 9

\* str.strip() for blanks
RECURSIVE LStrip(_)
LStrip(t) == IF t # <<>> /\ t[1] = " " THEN LStrip(Tail(t)) ELSE t

RECURSIVE RStrip(_)
RStrip(t) == IF t # <<>> /\ t[Len(t)] = " "
             THEN RStrip(SubSeq(t, 1, Len(t) - 1)) ELSE t

Strip(t) == RStrip(LStrip(t))

\* the value of a run of decimal digits
RECURSIVE DecValue(_)
DecValue(t) == IF t = <<>> THEN 0
               ELSE 10 * DecValue(SubSeq(t, 1, Len(t) - 1)) + DigitVal(t[Len(t)])

\* int(text) for text of blanks, a sign and decimal digits: ok is FALSE where
\* Python raises ValueError
PyInt(t) ==
    LET u == Strip(t)
        signed == u # <<>> /\ u[1] \in {"+", "-"}
        body == IF signed THEN Tail(u) ELSE u
        ok == body # <<>> /\ \A i \in 1..Len(body) : body[i] \in DigitChars
    IN  [ok |-> ok,
         val |-> IF ~ok THEN 0
                 ELSE IF signed /\ u[1] = "-" THEN -DecValue(body)
                 ELSE DecValue(body)]

\* seq[i] of Python raises no IndexError; a negative i counts from the end
PyIndexOk(q, i) == -Len(q) <= i /\ i < Len(q)

\* the position seq[i] designates, counted from 0
PyPos(q, i) == IF i >= 0 THEN i ELSE Len(q) + i

\* seq[i] of Python
PyAt(q, i) == q[PyPos(q, i) + 1]

-----------------------------------------------------------------------------
(* The displays *)

\* the least element of a set of integers
Least(S) == CHOOSE m \in S : \A n \in S : m <= n

\* the indices of the physical monitors in mss().monitors
Physical(mons) == 1..(Len(mons) - 1)

\* a fallback that takes the first physical monitor
GuessPrimaryFirst(mons) ==
    LET origin == {i \in Physical(mons) :
                      PyAt(mons, i).left = 0 /\ PyAt(mons, i).top = 0}
    IN  IF origin # {} THEN Least(origin) ELSE 1

\* guess_primary_index (projector_mirror_tk_v2.py, projector_mirror_tk_fast.py):
\* the first physical monitor at (0, 0), else the first one of largest area
GuessPrimaryIndex(mons) ==
    LET origin == {i \in Physical(mons) :
                      PyAt(mons, i).left = 0 /\ PyAt(mons, i).top = 0}
        area(i) == PyAt(mons, i).width * PyAt(mons, i).height
        largest == {i \in Physical(mons) :
                       \A j \in Physical(mons) : area(i) >= area(j)}
    IN  IF origin # {} THEN Least(origin) ELSE Least(largest)

\* get_primary_aspect (projector_mirror_tk.py): the first physical monitor at
\* (0, 0), else sct.monitors[1]
GetPrimaryIndex(mons) ==
    LET origin == {i \in Physical(mons) :
                      PyAt(mons, i).left = 0 /\ PyAt(mons, i).top = 0}
    IN  IF origin # {} THEN Least(origin) ELSE 1

\* ProjectorMirror._find_primary_mss_monitor_index: the first physical
\* monitor with the geometry of the Qt primary screen, else 1
FindPrimaryMssMonitorIndex(mons, g) ==
    LET same == {i \in Physical(mons) :
                    /\ PyAt(mons, i).left = g.x /\ PyAt(mons, i).top = g.y
                    /\ PyAt(mons, i).width = g.width
                    /\ PyAt(mons, i).height = g.height}
    IN  IF same # {} THEN Least(same) ELSE 1

\* _place_on_preferred_screen, move_to_primary_or_secondary(secondary=True):
\* the first screen whose name differs from the primary's, else the primary
FirstOtherName(scr, prim) ==
    LET others == {i \in 1..Len(scr) : scr[i].name # scr[prim].name}
    IN  IF others # {} THEN Least(others) ELSE prim

\* move_to_next_monitor: (idx + 1) % len(screens), as a position from 1
NextScreen(scr, cur) == (cur % Len(scr)) + 1

-----------------------------------------------------------------------------
(* Inputs *)

\* the scripts of the region editor, and those with a capture thread
EditorVariants == {"v3", "tk_v2"}
TkVariants == {"tk_v2", "tk_fast"}

\* window sizes (width, height) of the projector window
Windows == {<<640, 480>>, <<400, 100>>}

\* source aspect ratios: 1920x1080 and 2560x1080
Aspects == {[n |-> 16, d |-> 9], [n |-> 64, d |-> 27]}

\* a pointer position far outside the window
FarPoint == <<-10000, 99999>>

\* the bounding corners of the rect as the handles are drawn
Box(r) == IF variant = "v3"
          THEN [l |-> QLeft(r), t |-> QTop(r), r |-> QRight(r), b |-> QBottom(r)]
          ELSE [l |-> r.x1, t |-> r.y1, r |-> r.x2, b |-> r.y2]

\* where the user aims at the rect: its corners, its middle, a quarter of
\* the way in, and just inside its top-left handle
RectPoints(r) ==
    LET bx == Box(r)
    IN  {<<bx.l, bx.t>>, <<bx.r, bx.t>>, <<bx.l, bx.b>>, <<bx.r, bx.b>>,
         <<(bx.l + bx.r) \div 2, (bx.t + bx.b) \div 2>>,
         <<bx.l + (bx.r - bx.l) \div 4, bx.t + (bx.b - bx.t) \div 4>>,
         <<bx.l + 3, bx.t + 3>>}

\* the corners of the window
WindowPoints == {0, W} \X {0, H}

PressPoints == RectPoints(rect) \cup {FarPoint}
MovePoints == RectPoints(rect) \cup WindowPoints \cup {FarPoint}

Buttons == {"left", "right"}
Keys == {"escape", "f", "r", "s", "space", "plus", "minus", "1", "2", "n"}

NoLast == [op |-> "construct", anchor |-> "none", px |-> 0, py |-> 0,
           dx |-> 0, dy |-> 0, cw |-> 0, ch |-> 0, fx |-> 0, fy |-> 0]

\* None in the frame slot; a frame is its grab number and its pixel size
NoFrame == [seq |-> 0, w |-> 0, h |-> 0]

\* one second, in microseconds
Second == 1000 * 1000

\* the time a cycle of the capture loop has spent before pacing, in
\* microseconds: below every budget, the budget of 100 per second (above
\* that of 120, below that of 90), and the budget of 50 per second
Elapsed == {2000, 10000, 20000}

\* the canvas image item: None until start_mirroring creates it, then its
\* coords
NoImage == [made |-> FALSE, x |-> 0, y |-> 0]
ImageAt(x, y) == [made |-> TRUE, x |-> x, y |-> y]

\* no pacing step yet
NoPace == [spent |-> 0, slept |-> FALSE, arg |-> 0]

\* a monitor as mss gives it
Monitor(l, t, w, h) == [left |-> l, top |-> t, width |-> w, height |-> h]

\* mss().monitors: the bounding box of the physical monitors, then these
WithVirtual(phys) ==
    LET idx == 1..Len(phys)
        Most(S) == CHOOSE m \in S : \A n \in S : m >= n
        l == Least({phys[i].left : i \in idx})
        t == Least({phys[i].top : i \in idx})
        r == Most({phys[i].left + phys[i].width : i \in idx})
        b == Most({phys[i].top + phys[i].height : i \in idx})
    IN  IF phys = <<>> THEN <<Monitor(0, 0, 0, 0)>>
        ELSE <<Monitor(l, t, r - l, b - t)>> \o phys

\* the displays of the sessions that start in Setup: the source at the
\* origin with the aspect a, the projector window right of it
DefaultMonitors(win, a) ==
    WithVirtual(<<Monitor(0, 0, 40 * a.n, 40 * a.d),
                  Monitor(40 * a.n, 0, win[1], win[2])>>)

\* a Qt screen: its name and its geometry
Screen(name, l, t, w, h) ==
    [name |-> name, x |-> l, y |-> t, width |-> w, height |-> h]

DefaultScreens(win, a) ==
    <<Screen("A", 0, 0, 40 * a.n, 40 * a.d),
      Screen("B", 40 * a.n, 0, win[1], win[2])>>

\* the floor of the centered rect's height in the running Tk script
TkFloor == IF variant = "tk_fast" THEN FAST_FLOOR_H ELSE TK_FLOOR_H

-----------------------------------------------------------------------------
(* Construction *)

\* the rect no script has computed yet
NoRect(v) == IF v = "v3" THEN [x |-> 0, y |-> 0, w |-> 0, h |-> 0]
                         ELSE [x1 |-> 0, y1 |-> 0, x2 |-> 0, y2 |-> 0]

\* the attributes __init__ sets whatever the displays are
Fresh(v) ==
    /\ variant = v
    /\ dragging = FALSE
    /\ resizing = FALSE
    /\ resize_anchor = "none"
    /\ drag_offset = <<0, 0>>
    /\ dragging_mode = "none"
    /\ prev_mouse = <<0, 0>>
    /\ mirroring = FALSE
    /\ closed = FALSE
    /\ lbutton = FALSE
    /\ nOps = 0
    /\ stop_flag = FALSE
    /\ image_id = NoImage
    /\ latest_img = NoFrame
    /\ frame_lock = "free"
    /\ tk_frame = NoFrame
    /\ cap_pc = "unstarted"
    /\ cap_img = NoFrame
    /\ ui_pc = "idle"
    /\ ui_img = NoFrame
    /\ nGrabs = 0
    /\ fails = 0
    /\ backoff_ms = 0
    /\ stop_pubs = 0
    /\ sct = IF v = "pm" THEN "mss" ELSE "none"
    /\ frame_img = NoFrame
    /\ timer_on = (v = "pm")
    /\ fps = CASE v = "v3"      -> 60
               [] v = "pm"      -> Max(10, Min(120, 30))
               [] v = "tk_fast" -> 90
               [] OTHER         -> 0
    /\ timer_interval = IF v = "pm" THEN 1000 \div fps ELSE 0
    /\ paused = FALSE
    /\ cap_interval = 0
    /\ pace = NoPace
    /\ handle_made_by = (IF v = "tk" THEN "main" ELSE "none")
    /\ handle_used_by = (IF v = "tk" THEN {"main"} ELSE {})
    /\ published = 0
    /\ dropped = {}
    /\ rendered = <<>>

\* __init__ up to "Init rect centered": everything but the rect, with a
\* source display of the aspect, at the origin, and the projector right of it
Attributes(v, win, a) ==
    /\ Fresh(v)
    /\ W = win[1] /\ H = win[2]
    /\ aspect = IF v = "v3" THEN AspectGuard(a) ELSE a
    /\ monitors = DefaultMonitors(win, a)
    /\ screens = (IF v = "pm" THEN DefaultScreens(win, a) ELSE <<>>)
    /\ primary_screen = (IF v = "pm" THEN 1 ELSE 0)
    /\ phase = "setup"
    /\ error = "none"
    /\ source_idx = (IF v \in {"tk_v2", "tk_fast"} THEN <<1>> ELSE <<>>)
    /\ projector_idx = (IF v \in {"tk", "tk_v2", "tk_fast"} THEN <<2>> ELSE <<>>)
    /\ primary_idx = (IF v = "v3" THEN <<>> ELSE <<1>>)
    /\ win_screen = (IF v = "pm" THEN <<2>> ELSE <<>>)

\* the state after __init__, given the script, the window and the aspect
Constructed(v, win, a) ==
    /\ Attributes(v, win, a)
    /\ rect = IF v = "v3" THEN V3ResetRectCentered(W, H, aspect)
               ELSE IF v = "pm" THEN NoRect(v)
               ELSE TkCenteredRect(W, H, aspect, TkFloor)
    /\ rect0 = rect
    /\ last = NoLast

\* DragRectOverlay.__init__ and ProjectorMirrorApp.__init__
Init == \E v \in EditorVariants, win \in Windows, a \in Aspects :
            Constructed(v, win, a)

-----------------------------------------------------------------------------
(* projector_mirror_simple_v3.py: event handlers *)

\* DragRectOverlay.mousePressEvent
V3MousePress(button, px, py) ==
    /\ variant = "v3" /\ ~closed
    /\ button = "left" => ~lbutton
    /\ lbutton' = IF button = "left" THEN TRUE ELSE lbutton
    /\ IF button # "left" \/ mirroring
       THEN UNCHANGED <<dragging, resizing, resize_anchor, drag_offset>>
       ELSE LET hit == V3HitTest(rect, px, py)
            IN  IF hit = "move"
                THEN /\ nOps < MaxOps
                     /\ dragging' = TRUE
                     /\ drag_offset' = <<px - QLeft(rect), py - QTop(rect)>>
                     /\ UNCHANGED <<resizing, resize_anchor>>
                ELSE IF hit \in {"tl", "tr", "bl", "br"}
                THEN /\ nOps < MaxOps
                     /\ resizing' = TRUE
                     /\ resize_anchor' = hit
                     /\ drag_offset' = <<px, py>>
                     /\ UNCHANGED dragging
                ELSE UNCHANGED <<dragging, resizing, resize_anchor,
                               drag_offset>>
    /\ UNCHANGED <<configVars, rect, dragging_mode, prev_mouse, mirroring,
                   closed, last, nOps, pipeVars>>

\* a move handler without the "if self.mirror_mode: return" guard
V3MouseMoveUnguarded(px, py) ==
    /\ variant = "v3" /\ ~closed
    /\ IF dragging
       THEN /\ nOps < MaxOps
            /\ nOps' = nOps + 1
            /\ rect' = V3MoveRectClamped(rect, px - drag_offset[1],
                                         py - drag_offset[2], W, H)
            /\ last' = [NoLast EXCEPT !.op = "move", !.px = px, !.py = py]
       ELSE IF resizing /\ resize_anchor # "none"
       THEN LET res == V3ResizeWithAspectClamped(rect, resize_anchor, px, py,
                                                 aspect, W, H)
            IN  /\ nOps < MaxOps
                /\ nOps' = nOps + 1
                /\ rect' = res.rect
                /\ last' = [op |-> "resize", anchor |-> resize_anchor,
                            px |-> px, py |-> py, dx |-> res.dx, dy |-> res.dy,
                            cw |-> res.cand[1], ch |-> res.cand[2],
                            fx |-> res.fixed[1], fy |-> res.fixed[2]]
       ELSE UNCHANGED <<rect, last, nOps>>
    /\ UNCHANGED <<configVars, gestureVars, mirroring, closed, pipeVars>>

\* DragRectOverlay.mouseMoveEvent
V3MouseMove(px, py) ==
    /\ variant = "v3" /\ ~closed
    /\ IF mirroring
       THEN UNCHANGED <<rect, last, nOps>>
       ELSE IF dragging
       THEN /\ nOps < MaxOps
            /\ nOps' = nOps + 1
            /\ rect' = V3MoveRectClamped(rect, px - drag_offset[1],
                                         py - drag_offset[2], W, H)
            /\ last' = [NoLast EXCEPT !.op = "move", !.px = px, !.py = py]
       ELSE IF resizing /\ resize_anchor # "none"
       THEN LET res == V3ResizeWithAspectClamped(rect, resize_anchor, px, py,
                                                 aspect, W, H)
            IN  /\ nOps < MaxOps
                /\ nOps' = nOps + 1
                /\ rect' = res.rect
                /\ last' = [op |-> "resize", anchor |-> resize_anchor,
                            px |-> px, py |-> py, dx |-> res.dx, dy |-> res.dy,
                            cw |-> res.cand[1], ch |-> res.cand[2],
                            fx |-> res.fixed[1], fy |-> res.fixed[2]]
       ELSE UNCHANGED <<rect, last, nOps>>
    /\ UNCHANGED <<configVars, gestureVars, mirroring, closed, pipeVars>>

\* a release handler that leaves the gesture flags as they are
V3MouseReleaseKeep(button) ==
    /\ variant = "v3" /\ ~closed
    /\ button = "left" => lbutton
    /\ lbutton' = IF button = "left" THEN FALSE ELSE lbutton
    /\ UNCHANGED <<configVars, rect, dragging, resizing, resize_anchor,
                   drag_offset, dragging_mode, prev_mouse, mirroring, closed,
                   last, nOps, pipeVars>>

\* a release handler that forgets to clear the anchor
V3MouseReleaseKeepAnchor(button) ==
    /\ variant = "v3" /\ ~closed
    /\ button = "left" => lbutton
    /\ lbutton' = IF button = "left" THEN FALSE ELSE lbutton
    /\ IF button # "left"
       THEN UNCHANGED <<dragging, resizing>>
       ELSE /\ dragging' = FALSE
            /\ resizing' = FALSE
    /\ UNCHANGED <<configVars, rect, resize_anchor, drag_offset, dragging_mode,
                   prev_mouse, mirroring, closed, last, nOps, pipeVars>>

\* DragRectOverlay.mouseReleaseEvent
V3MouseRelease(button) ==
    /\ variant = "v3" /\ ~closed
    /\ button = "left" => lbutton
    /\ lbutton' = IF button = "left" THEN FALSE ELSE lbutton
    /\ IF button # "left"
       THEN UNCHANGED <<dragging, resizing, resize_anchor>>
       ELSE /\ dragging' = FALSE
            /\ resizing' = FALSE
            /\ resize_anchor' = "none"
    /\ UNCHANGED <<configVars, rect, drag_offset, dragging_mode, prev_mouse,
                   mirroring, closed, last, nOps, pipeVars>>

\* DragRectOverlay.start_mirroring
V3StartMirroring ==
    /\ mirroring' = TRUE
    /\ sct' = "mss"
    /\ timer_on' = TRUE
    /\ timer_interval' = 1000 \div fps
    /\ UNCHANGED <<frame_img, paused>>

\* a key handler whose 's' toggles the mirroring flag
V3KeyPressToggle(key) ==
    /\ variant = "v3" /\ ~closed
    /\ IF key = "escape"
       THEN closed' = TRUE /\ UNCHANGED <<rect, mirroring, last, qtVars>>
       ELSE IF key = "f"
       THEN UNCHANGED <<rect, mirroring, closed, last, qtVars>>
       ELSE IF key = "r" /\ ~mirroring
       THEN /\ rect' = V3ResetRectCentered(W, H, aspect)
            /\ last' = [NoLast EXCEPT !.op = "reset"]
            /\ UNCHANGED <<mirroring, closed, qtVars>>
       ELSE IF key = "s"
       THEN mirroring' = ~mirroring /\ UNCHANGED <<rect, closed, last, qtVars>>
       ELSE UNCHANGED <<rect, mirroring, closed, last, qtVars>>
    /\ UNCHANGED <<configVars, gestureVars, nOps, stop_flag, image_id, fps,
                   capVars, uiVars, slotVars>>

\* DragRectOverlay.keyPressEvent; "f" is F11, which changes no state kept here
V3KeyPress(key) ==
    /\ variant = "v3" /\ ~closed
    /\ IF key = "escape"
       THEN closed' = TRUE /\ UNCHANGED <<rect, mirroring, last, qtVars>>
       ELSE IF key = "f"
       THEN UNCHANGED <<rect, mirroring, closed, last, qtVars>>
       ELSE IF key = "r" /\ ~mirroring
       THEN /\ rect' = V3ResetRectCentered(W, H, aspect)
            /\ last' = [NoLast EXCEPT !.op = "reset"]
            /\ UNCHANGED <<mirroring, closed, qtVars>>
       ELSE IF key = "s" /\ ~mirroring
       THEN V3StartMirroring /\ UNCHANGED <<rect, closed, last>>
       ELSE UNCHANGED <<rect, mirroring, closed, last, qtVars>>
    /\ UNCHANGED <<configVars, gestureVars, nOps, stop_flag, image_id, fps,
                   capVars, uiVars, slotVars>>

-----------------------------------------------------------------------------
(* projector_mirror_tk_v2.py, projector_mirror_tk_fast.py: event handlers.   *)
(* They run on the Tk main thread, so never inside ui_update_loop.        *)

\* ProjectorMirrorApp.on_mouse_down (<Button-1>), in a session of at most ops
\* pointer moves that move or resize the rect
TkMouseDownWithin(ex, ey, ops) ==
    /\ variant \in TkVariants /\ ~closed /\ ui_pc = "idle"
    /\ ~lbutton
    /\ lbutton' = TRUE
    /\ IF mirroring
       THEN UNCHANGED <<prev_mouse, dragging_mode>>
       ELSE /\ TkHitTest(rect, ex, ey) # "none" => nOps < ops
            /\ prev_mouse' = <<ex, ey>>
            /\ dragging_mode' = TkHitTest(rect, ex, ey)
    /\ UNCHANGED <<configVars, rect, dragging, resizing, resize_anchor,
                   drag_offset, mirroring, closed, last, nOps, pipeVars>>

\* ProjectorMirrorApp.on_mouse_down (<Button-1>)
TkMouseDown(ex, ey) == TkMouseDownWithin(ex, ey, MaxOps)

\* ProjectorMirrorApp.on_mouse_drag (<B1-Motion>), in a session of at most ops
\* pointer moves that move or resize the rect
TkMouseDragWithin(ex, ey, ops) ==
    /\ variant \in TkVariants /\ ~closed /\ ui_pc = "idle"
    /\ lbutton
    /\ IF mirroring \/ dragging_mode = "none"
       THEN UNCHANGED <<rect, prev_mouse, last, nOps>>
       ELSE LET x == Max(0, Min(ex, W))
                y == Max(0, Min(ey, H))
            IN  /\ nOps < ops
                /\ nOps' = nOps + 1
                /\ IF dragging_mode = "move"
                   THEN /\ rect' = TkMove(rect, x, y, prev_mouse, W, H)
                        /\ last' = [NoLast EXCEPT !.op = "move",
                                                  !.px = ex, !.py = ey]
                   ELSE LET res == TkResize(rect, dragging_mode, x, y,
                                            aspect, W, H)
                        IN  /\ rect' = res.rect
                            /\ last' = [op |-> "resize",
                                        anchor |-> dragging_mode,
                                        px |-> ex, py |-> ey,
                                        dx |-> res.dx, dy |-> res.dy,
                                        cw |-> res.cand[1], ch |-> res.cand[2],
                                        fx |-> res.fixed[1], fy |-> res.fixed[2]]
                /\ prev_mouse' = <<ex, ey>>
    /\ UNCHANGED <<configVars, dragging, resizing, resize_anchor, drag_offset,
                   dragging_mode, lbutton, mirroring, closed, pipeVars>>

\* ProjectorMirrorApp.on_mouse_drag (<B1-Motion>)
TkMouseDrag(ex, ey) == TkMouseDragWithin(ex, ey, MaxOps)

\* ProjectorMirrorApp.on_mouse_up (<ButtonRelease-1>)
TkMouseUp ==
    /\ variant \in TkVariants /\ ~closed /\ ui_pc = "idle"
    /\ lbutton
    /\ lbutton' = FALSE
    /\ dragging_mode' = "none"
    /\ UNCHANGED <<configVars, rect, dragging, resizing, resize_anchor,
                   drag_offset, prev_mouse, mirroring, closed, last, nOps,
                   pipeVars>>

\* ProjectorMirrorApp.start_mirroring: create the image item, start the thread
TkStartMirroring ==
    /\ mirroring' = TRUE
    /\ image_id' = ImageAt(rect.x1, rect.y1)
    /\ cap_pc' = "start"

\* a key handler whose 'r' recenters the rect at its current size
TkKeyPressRecenter(key) ==
    /\ variant \in TkVariants /\ ~closed /\ ui_pc = "idle"
    /\ IF key = "escape"
       THEN /\ stop_flag' = TRUE
            /\ closed' = TRUE
            /\ UNCHANGED <<rect, mirroring, last, image_id, cap_pc, fps>>
       ELSE IF key = "f"
       THEN UNCHANGED <<rect, mirroring, closed, last, stop_flag, image_id,
                        cap_pc, fps>>
       ELSE IF key = "r" /\ ~mirroring
       THEN /\ rect' = LET rw == rect.x2 - rect.x1
                           rh == rect.y2 - rect.y1
                           rx == (W - rw) \div 2
                           ry == (H - rh) \div 2
                       IN  [x1 |-> rx, y1 |-> ry, x2 |-> rx + rw, y2 |-> ry + rh]
            /\ last' = [NoLast EXCEPT !.op = "reset"]
            /\ UNCHANGED <<mirroring, closed, stop_flag, image_id, cap_pc,
                           fps>>
       ELSE IF key = "s" /\ ~mirroring
       THEN TkStartMirroring /\ UNCHANGED <<rect, closed, last, stop_flag, fps>>
       ELSE IF key = "plus" /\ variant = "tk_fast"
       THEN /\ fps' = RateUp(variant, fps)
            /\ UNCHANGED <<rect, mirroring, closed, last, stop_flag, image_id,
                           cap_pc>>
       ELSE IF key = "minus" /\ variant = "tk_fast"
       THEN /\ fps' = RateDown(variant, fps)
            /\ UNCHANGED <<rect, mirroring, closed, last, stop_flag, image_id,
                           cap_pc>>
       ELSE UNCHANGED <<rect, mirroring, closed, last, stop_flag, image_id,
                        cap_pc, fps>>
    /\ UNCHANGED <<configVars, gestureVars, nOps, qtVars, cap_img, nGrabs,
                   capHist, uiVars, slotVars>>

\* a key handler whose 's' starts a capture thread in Mirroring as well
TkKeyPressRestart(key) ==
    /\ variant \in TkVariants /\ ~closed /\ ui_pc = "idle"
    /\ IF key = "escape"
       THEN /\ stop_flag' = TRUE
            /\ closed' = TRUE
            /\ UNCHANGED <<rect, mirroring, last, image_id, cap_pc, fps>>
       ELSE IF key = "f"
       THEN UNCHANGED <<rect, mirroring, closed, last, stop_flag, image_id,
                        cap_pc, fps>>
       ELSE IF key = "r" /\ ~mirroring
       THEN /\ rect' = TkCenteredRect(W, H, aspect, TkFloor)
            /\ last' = [NoLast EXCEPT !.op = "reset"]
            /\ UNCHANGED <<mirroring, closed, stop_flag, image_id, cap_pc,
                           fps>>
       ELSE IF key = "s"
       THEN TkStartMirroring /\ UNCHANGED <<rect, closed, last, stop_flag, fps>>
       ELSE IF key = "plus" /\ variant = "tk_fast"
       THEN /\ fps' = RateUp(variant, fps)
            /\ UNCHANGED <<rect, mirroring, closed, last, stop_flag, image_id,
                           cap_pc>>
       ELSE IF key = "minus" /\ variant = "tk_fast"
       THEN /\ fps' = RateDown(variant, fps)
            /\ UNCHANGED <<rect, mirroring, closed, last, stop_flag, image_id,
                           cap_pc>>
       ELSE UNCHANGED <<rect, mirroring, closed, last, stop_flag, image_id,
                        cap_pc, fps>>
    /\ UNCHANGED <<configVars, gestureVars, nOps, qtVars, cap_img, nGrabs,
                   capHist, uiVars, slotVars>>

\* ProjectorMirrorApp.on_key
TkKeyPress(key) ==
    /\ variant \in TkVariants /\ ~closed /\ ui_pc = "idle"
    /\ IF key = "escape"
       THEN /\ stop_flag' = TRUE
            /\ closed' = TRUE
            /\ UNCHANGED <<rect, mirroring, last, image_id, cap_pc, fps>>
       ELSE IF key = "f"
       THEN UNCHANGED <<rect, mirroring, closed, last, stop_flag, image_id,
                        cap_pc, fps>>
       ELSE IF key = "r" /\ ~mirroring
       THEN /\ rect' = TkCenteredRect(W, H, aspect, TkFloor)
            /\ last' = [NoLast EXCEPT !.op = "reset"]
            /\ UNCHANGED <<mirroring, closed, stop_flag, image_id, cap_pc,
                           fps>>
       ELSE IF key = "s" /\ ~mirroring
       THEN TkStartMirroring /\ UNCHANGED <<rect, closed, last, stop_flag, fps>>
       ELSE IF key = "plus" /\ variant = "tk_fast"
       THEN /\ fps' = RateUp(variant, fps)
            /\ UNCHANGED <<rect, mirroring, closed, last, stop_flag, image_id,
                           cap_pc>>
       ELSE IF key = "minus" /\ variant = "tk_fast"
       THEN /\ fps' = RateDown(variant, fps)
            /\ UNCHANGED <<rect, mirroring, closed, last, stop_flag, image_id,
                           cap_pc>>
       ELSE UNCHANGED <<rect, mirroring, closed, last, stop_flag, image_id,
                        cap_pc, fps>>
    /\ UNCHANGED <<configVars, gestureVars, nOps, qtVars, cap_img, nGrabs,
                   capHist, uiVars, slotVars>>

-----------------------------------------------------------------------------
(* projector_mirror_tk_v2.py capture_loop, projector_mirror_tk_fast.py       *)
(* capture_loop_dx: the capture thread, one step per statement group         *)

\* a capture thread that __init__ starts, before any commit
CapStartAtInit ==
    /\ variant \in TkVariants
    /\ cap_pc \in {"unstarted", "start"}
    /\ cap_pc' = "test"
    /\ handle_made_by' = "capture"
    /\ cap_interval' = IF variant = "tk_fast" THEN fps ELSE 120
    /\ UNCHANGED <<editorVars, ctlVars, cap_img, nGrabs, fails, backoff_ms,
                   pace, handle_used_by, uiVars, slotVars>>

\* thread entry: "with mss() as s" / dxcam.create() make the capture handle
\* in this thread; interval = 1.0 / 120.0, or 1.0 / float(self.target_fps)
CapStart ==
    /\ variant \in TkVariants
    /\ cap_pc = "start"
    /\ cap_pc' = "test"
    /\ handle_made_by' = "capture"
    /\ cap_interval' = IF variant = "tk_fast" THEN fps ELSE 120
    /\ UNCHANGED <<editorVars, ctlVars, cap_img, nGrabs, fails, backoff_ms,
                   pace, handle_used_by, uiVars, slotVars>>

\* a loop test that never looks at the stop flag
CapTestNoStop ==
    /\ cap_pc = "test"
    /\ cap_pc' = "grab"
    /\ pace' = NoPace
    /\ UNCHANGED <<editorVars, ctlVars, cap_img, nGrabs, fails, backoff_ms,
                   cap_interval, handle_made_by, handle_used_by, uiVars,
                   slotVars>>

\* while not self.stop_flag.is_set(): the next cycle begins with
\* t0 = time.perf_counter(), or the loop is left
CapTest ==
    /\ cap_pc = "test"
    /\ cap_pc' = IF stop_flag THEN "done" ELSE "grab"
    /\ pace' = NoPace
    /\ UNCHANGED <<editorVars, ctlVars, cap_img, nGrabs, fails, backoff_ms,
                   cap_interval, handle_made_by, handle_used_by, uiVars,
                   slotVars>>

\* a grab whose failure is not tested: the empty result goes on to be stored
CapGrabNoNoneTest(ok) ==
    /\ cap_pc = "grab"
    /\ nGrabs < MaxGrabs
    /\ nGrabs' = nGrabs + 1
    /\ fails' = IF ok THEN 0 ELSE fails + 1
    /\ cap_img' = IF ok THEN [seq |-> nGrabs + 1, w |-> 0, h |-> 0] ELSE NoFrame
    /\ cap_pc' = "resize"
    /\ handle_used_by' = handle_used_by \cup {"capture"}
    /\ UNCHANGED <<editorVars, ctlVars, backoff_ms, cap_interval, pace,
                   handle_made_by, uiVars, slotVars>>

\* frame = s.grab(mon) / cam.grab(region=region).  tk_v2 has no handler
\* around a failing grab, so the exception ends the thread; tk_fast gets
\* None, sleeps the backoff and continues
CapGrab(ok) ==
    /\ cap_pc = "grab"
    /\ nGrabs < MaxGrabs
    /\ nGrabs' = nGrabs + 1
    /\ fails' = IF ok THEN 0 ELSE fails + 1
    /\ IF ok
       THEN /\ cap_img' = [seq |-> nGrabs + 1, w |-> 0, h |-> 0]
            /\ cap_pc' = "resize"
       ELSE /\ cap_img' = IF variant = "tk_fast" THEN NoFrame ELSE cap_img
            /\ cap_pc' = IF variant = "tk_fast" THEN "backoff" ELSE "dead"
    /\ handle_used_by' = handle_used_by \cup {"capture"}
    /\ UNCHANGED <<editorVars, ctlVars, backoff_ms, cap_interval, pace,
                   handle_made_by, uiVars, slotVars>>

\* time.sleep(0.005); continue
CapBackoff ==
    /\ cap_pc = "backoff"
    /\ backoff_ms' = 5
    /\ cap_pc' = "test"
    /\ UNCHANGED <<editorVars, ctlVars, cap_img, nGrabs, fails, thrVars,
                   uiVars, slotVars>>

\* a cycle that stores the frame at the size it was grabbed in
CapResizeSkip ==
    /\ cap_pc = "resize"
    /\ cap_pc' = "acquire"
    /\ UNCHANGED <<editorVars, ctlVars, cap_img, nGrabs, capHist, uiVars,
                   slotVars>>

\* convert, then resize to the rect's size as read now
CapResize ==
    /\ cap_pc = "resize"
    /\ cap_img' = [cap_img EXCEPT !.w = Max(1, rect.x2 - rect.x1),
                                  !.h = Max(1, rect.y2 - rect.y1)]
    /\ cap_pc' = "acquire"
    /\ UNCHANGED <<editorVars, ctlVars, nGrabs, capHist, uiVars, slotVars>>

\* an entry into the critical section that does not wait for the lock
CapAcquireNoWait ==
    /\ cap_pc = "acquire"
    /\ frame_lock' = "capture"
    /\ cap_pc' = "store"
    /\ UNCHANGED <<editorVars, ctlVars, cap_img, nGrabs, capHist, uiVars,
                   latest_img, published, dropped, stop_pubs>>

\* with self._frame_lock: (enter)
CapAcquire ==
    /\ cap_pc = "acquire"
    /\ frame_lock = "free"
    /\ frame_lock' = "capture"
    /\ cap_pc' = "store"
    /\ UNCHANGED <<editorVars, ctlVars, cap_img, nGrabs, capHist, uiVars,
                   latest_img, published, dropped, stop_pubs>>

\* a store that keeps an unread frame and discards the new one
CapStoreKeepUnread ==
    /\ cap_pc = "store"
    /\ latest_img' = IF latest_img = NoFrame THEN cap_img ELSE latest_img
    /\ published' = cap_img.seq
    /\ dropped' = IF latest_img # NoFrame THEN dropped \cup {cap_img.seq}
                                          ELSE dropped
    /\ stop_pubs' = IF stop_flag THEN stop_pubs + 1 ELSE stop_pubs
    /\ cap_pc' = "release"
    /\ UNCHANGED <<editorVars, ctlVars, cap_img, nGrabs, capHist, uiVars,
                   frame_lock>>

\* self._latest_img = img: overwrites whatever the slot holds
CapStore ==
    /\ cap_pc = "store"
    /\ latest_img' = cap_img
    /\ published' = cap_img.seq
    /\ dropped' = IF latest_img # NoFrame THEN dropped \cup {latest_img.seq}
                                          ELSE dropped
    /\ stop_pubs' = IF stop_flag THEN stop_pubs + 1 ELSE stop_pubs
    /\ cap_pc' = "release"
    /\ UNCHANGED <<editorVars, ctlVars, cap_img, nGrabs, capHist, uiVars,
                   frame_lock>>

\* with self._frame_lock: (leave)
CapRelease ==
    /\ cap_pc = "release"
    /\ frame_lock' = "free"
    /\ cap_pc' = "pace"
    /\ UNCHANGED <<editorVars, ctlVars, cap_img, nGrabs, capHist, uiVars,
                   latest_img, published, dropped, stop_pubs>>

\* a pacing step that sleeps the rest of the budget without the dt test
CapPaceNoTest(spent) ==
    /\ variant \in TkVariants
    /\ cap_pc = "pace"
    /\ pace' = [spent |-> spent, slept |-> TRUE,
                arg |-> Second - spent * cap_interval]
    /\ cap_pc' = "test"
    /\ UNCHANGED <<editorVars, ctlVars, cap_img, nGrabs, fails, backoff_ms,
                   cap_interval, handle_made_by, handle_used_by, uiVars,
                   slotVars>>

\* dt = perf_counter() - t0; if dt < interval: time.sleep(max(0, interval - dt)).
\* spent is dt in microseconds; dt < 1 / cap_interval is
\* spent * cap_interval < Second, and arg is the sleep in units of
\* 1 / (Second * cap_interval) s
CapPace(spent) ==
    /\ variant \in TkVariants
    /\ cap_pc = "pace"
    /\ pace' = IF spent * cap_interval < Second
               THEN [spent |-> spent, slept |-> TRUE,
                     arg |-> Max(0, Second - spent * cap_interval)]
               ELSE [spent |-> spent, slept |-> FALSE, arg |-> 0]
    /\ cap_pc' = "test"
    /\ UNCHANGED <<editorVars, ctlVars, cap_img, nGrabs, fails, backoff_ms,
                   cap_interval, handle_made_by, handle_used_by, uiVars,
                   slotVars>>

\* the thread is a daemon: it ends with the process once mainloop returns
ProcessExit ==
    /\ closed
    /\ cap_pc \notin {"unstarted", "done", "dead", "killed"}
    /\ cap_pc' = "killed"
    /\ frame_lock' = IF frame_lock = "capture" THEN "free" ELSE frame_lock
    /\ UNCHANGED <<editorVars, ctlVars, cap_img, nGrabs, capHist, uiVars,
                   latest_img, published, dropped, stop_pubs>>

-----------------------------------------------------------------------------
(* ui_update_loop: a root.after callback on the Tk main thread *)

\* the callback starts: stop check, then the mirroring test; a destroyed
\* root runs no callbacks
UITick ==
    /\ variant \in TkVariants /\ ~closed
    /\ ui_pc = "idle"
    /\ ui_pc' = IF stop_flag THEN "exited"
                ELSE IF mirroring /\ image_id.made THEN "acquire"
                ELSE "idle"
    /\ UNCHANGED <<editorVars, ctlVars, capVars, ui_img, tk_frame,
                   rendered, slotVars>>

\* with self._frame_lock: (enter)
UIAcquire ==
    /\ ui_pc = "acquire"
    /\ frame_lock = "free"
    /\ frame_lock' = "ui"
    /\ ui_pc' = "read"
    /\ UNCHANGED <<editorVars, ctlVars, capVars, ui_img, tk_frame,
                   rendered, latest_img, published, dropped, stop_pubs>>

\* img = self._latest_img
UIRead ==
    /\ ui_pc = "read"
    /\ ui_img' = latest_img
    /\ ui_pc' = "clear"
    /\ UNCHANGED <<editorVars, ctlVars, capVars, tk_frame,
                   rendered, slotVars>>

\* a read that leaves the frame in the slot
UIClearKeep ==
    /\ ui_pc = "clear"
    /\ ui_pc' = "release"
    /\ UNCHANGED <<editorVars, ctlVars, capVars, ui_img, tk_frame,
                   rendered, slotVars>>

\* self._latest_img = None
UIClear ==
    /\ ui_pc = "clear"
    /\ latest_img' = NoFrame
    /\ ui_pc' = "release"
    /\ UNCHANGED <<editorVars, ctlVars, capVars, ui_img, tk_frame,
                   rendered, frame_lock, published, dropped, stop_pubs>>

\* with self._frame_lock: (leave)
UIRelease ==
    /\ ui_pc = "release"
    /\ frame_lock' = "free"
    /\ ui_pc' = "render"
    /\ UNCHANGED <<editorVars, ctlVars, capVars, ui_img, tk_frame,
                   rendered, latest_img, published, dropped, stop_pubs>>

\* if img is not None: one draw call, which moves the image item to the
\* rect's top-left as read now and shows the frame; then root.after
\* reschedules the loop
UIRender ==
    /\ ui_pc = "render"
    /\ IF ui_img # NoFrame
       THEN /\ tk_frame' = ui_img
            /\ image_id' = ImageAt(rect.x1, rect.y1)
            /\ rendered' = Append(rendered, ui_img.seq)
       ELSE UNCHANGED <<tk_frame, image_id, rendered>>
    /\ ui_img' = NoFrame
    /\ ui_pc' = "idle"
    /\ UNCHANGED <<editorVars, stop_flag, qtVars, fps, capVars, slotVars>>

-----------------------------------------------------------------------------
(* The Qt timer pipelines: projector_mirror_simple_v3.py _grab_frame and     *)
(* projector_mirror.py grab_and_update, each a slot of a QTimer on the main  *)
(* thread                                                                    *)

\* DragRectOverlay._grab_frame, one timer tick; a failing grab raises inside
\* the try block, is printed, and the slot sleeps 10 ms
V3GrabFrame(ok) ==
    /\ variant = "v3" /\ ~closed /\ timer_on
    /\ IF ~mirroring \/ sct = "none"
       THEN UNCHANGED <<frame_img, nGrabs, fails, backoff_ms>>
       ELSE /\ nGrabs < MaxGrabs
            /\ nGrabs' = nGrabs + 1
            /\ IF ok
               THEN /\ frame_img' = [seq |-> nGrabs + 1, w |-> 0, h |-> 0]
                    /\ fails' = 0
                    /\ UNCHANGED backoff_ms
               ELSE /\ fails' = fails + 1
                    /\ backoff_ms' = 10
                    /\ UNCHANGED frame_img
    /\ UNCHANGED <<editorVars, stop_flag, image_id, fps, sct, timer_on,
                   timer_interval, paused, cap_pc, cap_img, thrVars, uiVars,
                   slotVars>>

\* a timer slot that does not look at self.paused
PmGrabAndUpdateAlways(ok) ==
    /\ variant = "pm" /\ ~closed /\ timer_on
    /\ nGrabs < MaxGrabs
    /\ nGrabs' = nGrabs + 1
    /\ IF ok
       THEN /\ frame_img' = [seq |-> nGrabs + 1, w |-> 0, h |-> 0]
            /\ fails' = 0
            /\ UNCHANGED backoff_ms
       ELSE /\ fails' = fails + 1
            /\ backoff_ms' = 50
            /\ UNCHANGED frame_img
    /\ UNCHANGED <<editorVars, stop_flag, image_id, fps, sct, timer_on,
                   timer_interval, paused, cap_pc, cap_img, thrVars, uiVars,
                   slotVars>>

\* ProjectorMirror.grab_and_update, one timer tick; after a failing grab the
\* slot sleeps 50 ms
PmGrabAndUpdate(ok) ==
    /\ variant = "pm" /\ ~closed /\ timer_on
    /\ IF paused
       THEN UNCHANGED <<frame_img, nGrabs, fails, backoff_ms>>
       ELSE /\ nGrabs < MaxGrabs
            /\ nGrabs' = nGrabs + 1
            /\ IF ok
               THEN /\ frame_img' = [seq |-> nGrabs + 1, w |-> 0, h |-> 0]
                    /\ fails' = 0
                    /\ UNCHANGED backoff_ms
               ELSE /\ fails' = fails + 1
                    /\ backoff_ms' = 50
                    /\ UNCHANGED frame_img
    /\ UNCHANGED <<editorVars, stop_flag, image_id, fps, sct, timer_on,
                   timer_interval, paused, cap_pc, cap_img, thrVars, uiVars,
                   slotVars>>

\* ProjectorMirror.keyPressEvent; F11 and P change the window's flags only
PmKeyPress(key) ==
    /\ variant = "pm" /\ ~closed
    /\ IF key = "escape"
       THEN /\ closed' = TRUE
            /\ UNCHANGED <<paused, fps, timer_interval, win_screen>>
       ELSE IF key = "space"
       THEN /\ paused' = ~paused
            /\ UNCHANGED <<closed, fps, timer_interval, win_screen>>
       ELSE IF key = "plus"
       THEN /\ fps' = RateUp(variant, fps)
            /\ timer_interval' = 1000 \div fps'
            /\ UNCHANGED <<closed, paused, win_screen>>
       ELSE IF key = "minus"
       THEN /\ fps' = RateDown(variant, fps)
            /\ timer_interval' = 1000 \div fps'
            /\ UNCHANGED <<closed, paused, win_screen>>
       ELSE IF key = "n" /\ screens # <<>>
       THEN /\ win_screen' = <<NextScreen(screens, win_screen[1])>>
            /\ UNCHANGED <<closed, paused, fps, timer_interval>>
       ELSE IF key = "1"
       THEN /\ win_screen' = <<primary_screen>>
            /\ UNCHANGED <<closed, paused, fps, timer_interval>>
       ELSE IF key = "2"
       THEN /\ win_screen' = <<FirstOtherName(screens, primary_screen)>>
            /\ UNCHANGED <<closed, paused, fps, timer_interval>>
       ELSE UNCHANGED <<closed, paused, fps, timer_interval, win_screen>>
    /\ UNCHANGED <<variant, W, H, aspect, rect0, monitors, screens,
                   primary_screen, phase, error, source_idx, projector_idx,
                   primary_idx, rect, gestureVars, mirroring, last, nOps,
                   stop_flag, image_id, sct, frame_img, timer_on, capVars,
                   uiVars, slotVars>>

-----------------------------------------------------------------------------
(* Startup: ProjectorMirrorApp.__init__ of projector_mirror_tk_v2.py and     *)
(* ProjectorMirrorFast.__init__ of projector_mirror_tk_fast.py, one step per *)
(* stretch between two input() calls                                         *)

\* input() at end of input raises EOFError
EOF == <<"EOF">>

\* __init__ has left the process: sys.exit(0), sys.exit(1), or an exception
\* nothing catches
Ended == phase \in {"exit0", "exit1", "crash"}

\* what __init__ leaves as the class attributes and the displays give it
initKept == <<variant, monitors, screens, primary_screen, gestureVars,
              mirroring, closed, nOps, pipeVars>>

\* the window on the projector and the centered rect in it
BindWindow(src, proj, floor) ==
    /\ aspect' = [n |-> src.width, d |-> src.height]
    /\ W' = proj.width
    /\ H' = proj.height
    /\ rect' = TkCenteredRect(proj.width, proj.height, aspect', floor)
    /\ rect0' = rect'
    /\ last' = NoLast

\* mons = list_monitors(); if len(mons) < 2: sys.exit(1);
\* primary_guess = guess_primary_index(mons)
TkListMonitors ==
    /\ variant \in TkVariants /\ phase = "enumerate"
    /\ IF Len(monitors) < 2
       THEN /\ phase' = "exit1"
            /\ error' = "few_displays"
            /\ UNCHANGED primary_idx
       ELSE /\ primary_idx' = <<GuessPrimaryIndex(monitors)>>
            /\ phase' = "ask_source"
            /\ UNCHANGED error
    /\ UNCHANGED <<initKept, W, H, aspect, rect, rect0, last, source_idx,
                   projector_idx, win_screen>>

\* src_in = input(...).strip(), "" at EOFError; "" takes primary_guess,
\* anything else goes through int(), whose ValueError nothing catches
TkAskSource(inp) ==
    /\ variant \in TkVariants /\ phase = "ask_source"
    /\ LET src_in == IF inp = EOF THEN <<>> ELSE Strip(inp)
           n == PyInt(src_in)
       IN  IF src_in = <<>>
           THEN /\ source_idx' = primary_idx
                /\ phase' = "ask_projector"
                /\ UNCHANGED error
           ELSE IF ~n.ok
           THEN /\ phase' = "crash"
                /\ error' = "not_a_number"
                /\ UNCHANGED source_idx
           ELSE /\ source_idx' = <<n.val>>
                /\ phase' = "ask_projector"
                /\ UNCHANGED error
    /\ UNCHANGED <<initKept, W, H, aspect, rect, rect0, last, projector_idx,
                   primary_idx, win_screen>>

\* proj_in = input(...).strip(): EOFError is "Cancelled." and sys.exit(0);
\* "" or 0 is sys.exit(1); then self.monitors[self.source_idx] and
\* self.monitors[self.projector_idx], whose IndexError nothing catches, the
\* aspect of the source, the window on the projector and the centered rect
TkAskProjector(inp) ==
    /\ variant \in TkVariants /\ phase = "ask_projector"
    /\ LET proj_in == Strip(inp)
           n == PyInt(proj_in)
       IN  IF inp = EOF
           THEN /\ phase' = "exit0"
                /\ UNCHANGED <<error, projector_idx, W, H, aspect, rect,
                               rect0, last>>
           ELSE IF proj_in = <<>>
           THEN /\ phase' = "exit1"
                /\ error' = "bad_index"
                /\ UNCHANGED <<projector_idx, W, H, aspect, rect, rect0, last>>
           ELSE IF ~n.ok
           THEN /\ phase' = "crash"
                /\ error' = "not_a_number"
                /\ UNCHANGED <<projector_idx, W, H, aspect, rect, rect0, last>>
           ELSE IF n.val = 0
           THEN /\ phase' = "exit1"
                /\ error' = "bad_index"
                /\ UNCHANGED <<projector_idx, W, H, aspect, rect, rect0, last>>
           ELSE /\ projector_idx' = <<n.val>>
                /\ IF /\ PyIndexOk(monitors, source_idx[1])
                      /\ PyIndexOk(monitors, n.val)
                   THEN /\ BindWindow(PyAt(monitors, source_idx[1]),
                                      PyAt(monitors, n.val), TkFloor)
                        /\ phase' = "setup"
                        /\ UNCHANGED error
                   ELSE /\ phase' = "crash"
                        /\ error' = "bad_index"
                        /\ UNCHANGED <<W, H, aspect, rect, rect0, last>>
    /\ UNCHANGED <<initKept, source_idx, primary_idx, win_screen>>

-----------------------------------------------------------------------------
(* projector_mirror_tk.py: startup, keys, and the capture thread, which      *)
(* calls the handle __init__ made and writes self.tk_frame without a lock    *)

\* self.sct = mss() is made in __init__, on the main thread, and
\* get_primary_aspect(self.sct) reads its monitors there; sct.monitors[1]
\* raises IndexError when there is no physical monitor
Tk1Init ==
    /\ variant = "tk" /\ phase = "enumerate"
    /\ IF Len(monitors) < 2
       THEN /\ phase' = "crash"
            /\ error' = "few_displays"
            /\ UNCHANGED <<primary_idx, aspect>>
       ELSE /\ primary_idx' = <<GetPrimaryIndex(monitors)>>
            /\ aspect' = [n |-> PyAt(monitors, primary_idx'[1]).width,
                          d |-> PyAt(monitors, primary_idx'[1]).height]
            /\ phase' = "ask_projector"
            /\ UNCHANGED error
    /\ UNCHANGED <<initKept, W, H, rect, rect0, last, source_idx,
                   projector_idx, win_screen>>

\* choose_projector_monitor gives None at EOFError, at a blank line, at
\* ValueError and outside 1..len(mons); __init__ then calls sys.exit(0)
Tk1ChooseProjector(inp) ==
    /\ variant = "tk" /\ phase = "ask_projector"
    /\ LET sel == Strip(inp)
           n == PyInt(sel)
       IN  IF inp = EOF \/ sel = <<>>
           THEN /\ phase' = "exit0"
                /\ UNCHANGED <<error, projector_idx, W, H, rect, rect0, last>>
           ELSE IF ~n.ok
           THEN /\ phase' = "exit0"
                /\ error' = "not_a_number"
                /\ UNCHANGED <<projector_idx, W, H, rect, rect0, last>>
           ELSE IF ~(1 <= n.val /\ n.val <= Len(monitors) - 1)
           THEN /\ phase' = "exit0"
                /\ error' = "bad_index"
                /\ UNCHANGED <<projector_idx, W, H, rect, rect0, last>>
           ELSE /\ projector_idx' = <<n.val>>
                /\ W' = PyAt(monitors, n.val).width
                /\ H' = PyAt(monitors, n.val).height
                /\ rect' = TkCenteredRect(W', H', aspect, TK_FLOOR_H)
                /\ rect0' = rect'
                /\ last' = NoLast
                /\ phase' = "setup"
                /\ UNCHANGED error
    /\ UNCHANGED <<initKept, aspect, source_idx, primary_idx, win_screen>>

\* ProjectorMirrorApp.on_key; 's' is start_mirroring, which creates the image
\* item, starts the thread and schedules the first draw
Tk1KeyPress(key) ==
    /\ variant = "tk" /\ ~closed
    /\ IF key = "escape"
       THEN /\ stop_flag' = TRUE
            /\ closed' = TRUE
            /\ UNCHANGED <<rect, mirroring, last, image_id, cap_pc>>
       ELSE IF key = "r" /\ ~mirroring
       THEN /\ rect' = TkCenteredRect(W, H, aspect, TK_FLOOR_H)
            /\ last' = [NoLast EXCEPT !.op = "reset"]
            /\ UNCHANGED <<mirroring, closed, stop_flag, image_id, cap_pc>>
       ELSE IF key = "s" /\ ~mirroring
       THEN /\ mirroring' = TRUE
            /\ image_id' = ImageAt(rect.x1, rect.y1)
            /\ cap_pc' = "start"
            /\ UNCHANGED <<rect, closed, last, stop_flag>>
       ELSE UNCHANGED <<rect, mirroring, closed, last, stop_flag, image_id,
                        cap_pc>>
    /\ UNCHANGED <<configVars, gestureVars, nOps, qtVars, fps, cap_img, nGrabs,
                   capHist, uiVars, slotVars>>

\* capture_loop entry: mon = self.primary_m; interval = 1.0 / 60.0.  The
\* thread makes no handle of its own
Tk1CapStart ==
    /\ variant = "tk"
    /\ cap_pc = "start"
    /\ cap_pc' = "test"
    /\ cap_interval' = 60
    /\ UNCHANGED <<editorVars, ctlVars, cap_img, nGrabs, fails, backoff_ms,
                   pace, handle_made_by, handle_used_by, uiVars, slotVars>>

\* frame = self.sct.grab(mon): the capture thread calls the handle of
\* __init__; nothing catches a failing grab, which ends the thread
Tk1CapGrab(ok) ==
    /\ variant = "tk"
    /\ cap_pc = "grab"
    /\ nGrabs < MaxGrabs
    /\ nGrabs' = nGrabs + 1
    /\ fails' = IF ok THEN 0 ELSE fails + 1
    /\ IF ok
       THEN /\ cap_img' = [seq |-> nGrabs + 1, w |-> 0, h |-> 0]
            /\ cap_pc' = "publish"
       ELSE /\ UNCHANGED cap_img
            /\ cap_pc' = "dead"
    /\ handle_used_by' = handle_used_by \cup {"capture"}
    /\ UNCHANGED <<editorVars, ctlVars, backoff_ms, cap_interval, pace,
                   handle_made_by, uiVars, slotVars>>

\* img.resize((w, h)); self.tk_frame = ImageTk.PhotoImage(img), written from
\* the capture thread with no lock
Tk1CapPublish ==
    /\ variant = "tk"
    /\ cap_pc = "publish"
    /\ tk_frame' = [cap_img EXCEPT !.w = Max(1, rect.x2 - rect.x1),
                                   !.h = Max(1, rect.y2 - rect.y1)]
    /\ published' = cap_img.seq
    /\ cap_pc' = "pace"
    /\ UNCHANGED <<editorVars, ctlVars, cap_img, nGrabs, capHist, ui_pc,
                   ui_img, rendered, latest_img, frame_lock, dropped,
                   stop_pubs>>

\* dt = perf_counter() - t0; if dt < interval: time.sleep(interval - dt)
Tk1CapPace(spent) ==
    /\ variant = "tk"
    /\ cap_pc = "pace"
    /\ pace' = IF spent * cap_interval < Second
               THEN [spent |-> spent, slept |-> TRUE,
                     arg |-> Second - spent * cap_interval]
               ELSE [spent |-> spent, slept |-> FALSE, arg |-> 0]
    /\ cap_pc' = "test"
    /\ UNCHANGED <<editorVars, ctlVars, cap_img, nGrabs, fails, backoff_ms,
                   cap_interval, handle_made_by, handle_used_by, uiVars,
                   slotVars>>

\* schedule_frame_draw, every 10 ms from start_mirroring on until the stop
\* flag is set: shows self.tk_frame when there is one
Tk1Draw ==
    /\ variant = "tk" /\ mirroring /\ ~closed /\ ~stop_flag
    /\ Len(rendered) < MaxDraws
    /\ tk_frame # NoFrame
    /\ rendered' = Append(rendered, tk_frame)
    /\ image_id' = ImageAt(rect.x1, rect.y1)
    /\ UNCHANGED <<editorVars, stop_flag, qtVars, fps, capVars, ui_pc, ui_img,
                   tk_frame, slotVars>>

-----------------------------------------------------------------------------
(* projector_mirror.py: ProjectorMirror.__init__ *)

\* the aspect of the primary screen, self.monitor_index, and the window on
\* the preferred screen
PmInit ==
    /\ variant = "pm" /\ phase = "enumerate"
    /\ aspect' = [n |-> screens[primary_screen].width,
                  d |-> screens[primary_screen].height]
    /\ primary_idx' = <<FindPrimaryMssMonitorIndex(monitors,
                                                   screens[primary_screen])>>
    /\ win_screen' = <<FirstOtherName(screens, primary_screen)>>
    /\ phase' = "setup"
    /\ UNCHANGED <<initKept, W, H, rect, rect0, last, error, source_idx,
                   projector_idx>>

-----------------------------------------------------------------------------
(* projector_mirror.py: AspectRatioWidget.resizeEvent *)

\* a resize handler that always adjusts the width
ResizeEventWidthOnly(w, h, a) ==
    <<IntTrunc(MulN(h, a), MulD(h, a)), h>>

\* the size resizeEvent fixes for the event size (w, h): the height adjusted
\* to the width, or the width to the height, whichever changes less
ResizeEvent(w, h, a) ==
    LET target_h == IntTrunc(DivN(w, a), DivD(w, a))
        target_w == IntTrunc(MulN(h, a), MulD(h, a))
    IN  IF Abs(target_h - h) <= Abs(target_w - w)
        THEN <<w, target_h>>
        ELSE <<target_w, h>>

\* a resize event of size (w, h); setFixedSize resizes the widget, which
\* delivers resizeEvent once more with the size just fixed
PmResizeEvent(w, h) ==
    /\ variant = "pm" /\ ~closed
    /\ LET first == ResizeEvent(w, h, aspect)
           again == ResizeEvent(first[1], first[2], aspect)
       IN  /\ W' = again[1]
           /\ H' = again[2]
    /\ last' = [NoLast EXCEPT !.op = "resize_event", !.px = w, !.py = h]
    /\ UNCHANGED <<variant, aspect, rect0, topoVars, rect, gestureVars,
                   mirroring, closed, nOps, pipeVars>>

-----------------------------------------------------------------------------
(* The region editor *)

Next ==
    \/ \E b \in Buttons, p \in PressPoints : V3MousePress(b, p[1], p[2])
    \/ \E p \in MovePoints : V3MouseMove(p[1], p[2])
    \/ \E b \in Buttons : V3MouseRelease(b)
    \/ \E k \in Keys : V3KeyPress(k)
    \/ \E p \in PressPoints : TkMouseDown(p[1], p[2])
    \/ \E p \in MovePoints : TkMouseDrag(p[1], p[2])
    \/ TkMouseUp
    \/ \E k \in Keys : TkKeyPress(k)

Spec == Init /\ [][Next]_vars

-----------------------------------------------------------------------------
(* The capture thread and the UI update loop around the frame slot *)

\* the scripts with a capture pipeline
PipeVariants == TkVariants \cup {"v3", "pm"}

InitPipe == \E v \in PipeVariants, a \in Aspects :
                Constructed(v, <<640, 480>>, a)

\* the keys of the Tk scripts but those of the target rate, which belong to
\* SpecRate
PipeKeys == Keys \ {"plus", "minus"}

NextPipe ==
    \/ \E k \in PipeKeys : TkKeyPress(k)
    \/ \E k \in Keys : V3KeyPress(k)
    \/ \E ok \in BOOLEAN : V3GrabFrame(ok)
    \/ \E k \in Keys : PmKeyPress(k)
    \/ \E ok \in BOOLEAN : PmGrabAndUpdate(ok)
    \/ CapStart
    \/ CapTest
    \/ \E ok \in BOOLEAN : CapGrab(ok)
    \/ CapBackoff
    \/ CapResize
    \/ CapAcquire
    \/ CapStore
    \/ CapRelease
    \/ \E e \in Elapsed : CapPace(e)
    \/ ProcessExit
    \/ UITick
    \/ UIAcquire
    \/ UIRead
    \/ UIClear
    \/ UIRelease
    \/ UIRender

SpecPipe == InitPipe /\ [][NextPipe]_vars

-----------------------------------------------------------------------------
(* The capture loops with the keys of the target rate, without the UI loop, *)
(* which reads and writes neither the rate nor the pacing                   *)

RatePipeVariants == {"tk_v2", "tk_fast", "pm"}

InitRate == \E v \in RatePipeVariants, a \in Aspects :
                Constructed(v, <<640, 480>>, a)

NextRate ==
    \/ \E k \in Keys : TkKeyPress(k)
    \/ \E k \in Keys : PmKeyPress(k)
    \/ \E ok \in BOOLEAN : PmGrabAndUpdate(ok)
    \/ CapStart
    \/ CapTest
    \/ \E ok \in BOOLEAN : CapGrab(ok)
    \/ CapBackoff
    \/ CapResize
    \/ CapAcquire
    \/ CapStore
    \/ CapRelease
    \/ \E e \in Elapsed : CapPace(e)
    \/ ProcessExit

SpecRate == InitRate /\ [][NextRate]_vars

-----------------------------------------------------------------------------
(* Startup over the displays and the lines typed at the prompts *)

\* the scripts that choose among the displays at startup
SetupVariants == {"tk", "tk_v2", "tk_fast", "pm"}

\* mss().monitors: no physical monitor; one; two with the one at the origin
\* first; two with it second; two with none at the origin, the second larger;
\* two of equal area with none at the origin; three
MonitorLists ==
    {WithVirtual(<<>>),
     WithVirtual(<<Monitor(0, 0, 640, 480)>>),
     WithVirtual(<<Monitor(0, 0, 640, 360), Monitor(640, 0, 640, 480)>>),
     WithVirtual(<<Monitor(-640, 0, 640, 480), Monitor(0, 0, 640, 360)>>),
     WithVirtual(<<Monitor(10, 0, 400, 300), Monitor(410, 0, 640, 480)>>),
     WithVirtual(<<Monitor(10, 0, 640, 480), Monitor(650, 0, 640, 480)>>),
     WithVirtual(<<Monitor(0, 0, 640, 360), Monitor(640, 0, 640, 480),
                   Monitor(1280, 0, 400, 300)>>)}

\* the monitors mss reports for Qt screens at scale 1
MonitorsOf(scr) ==
    WithVirtual([i \in 1..Len(scr) |->
                    Monitor(scr[i].x, scr[i].y, scr[i].width, scr[i].height)])

\* app.screens() with primaryScreen(): one screen; two with the primary
\* first; two with it second; three with it second; two monitors of one
\* model, for which QScreen.name() gives the same text; two with the primary
\* second and scaled by 1.5, so that its Qt geometry is not its mss geometry
ScreenLists ==
    {[scr |-> <<Screen("A", 0, 0, 640, 360)>>, prim |-> 1,
      mons |-> MonitorsOf(<<Screen("A", 0, 0, 640, 360)>>)],
     [scr |-> <<Screen("A", 0, 0, 640, 360), Screen("B", 640, 0, 640, 480)>>,
      prim |-> 1,
      mons |-> MonitorsOf(<<Screen("A", 0, 0, 640, 360),
                            Screen("B", 640, 0, 640, 480)>>)],
     [scr |-> <<Screen("B", -640, 0, 640, 480), Screen("A", 0, 0, 640, 360)>>,
      prim |-> 2,
      mons |-> MonitorsOf(<<Screen("B", -640, 0, 640, 480),
                            Screen("A", 0, 0, 640, 360)>>)],
     [scr |-> <<Screen("B", -640, 0, 640, 480), Screen("A", 0, 0, 640, 360),
                Screen("C", 640, 0, 400, 300)>>,
      prim |-> 2,
      mons |-> MonitorsOf(<<Screen("B", -640, 0, 640, 480),
                            Screen("A", 0, 0, 640, 360),
                            Screen("C", 640, 0, 400, 300)>>)],
     [scr |-> <<Screen("U2415", 0, 0, 640, 360),
                Screen("U2415", 640, 0, 640, 360)>>,
      prim |-> 1,
      mons |-> MonitorsOf(<<Screen("U2415", 0, 0, 640, 360),
                            Screen("U2415", 640, 0, 640, 360)>>)],
     [scr |-> <<Screen("B", -640, 0, 640, 480), Screen("A", 0, 0, 640, 360)>>,
      prim |-> 2,
      mons |-> WithVirtual(<<Monitor(-640, 0, 640, 480),
                             Monitor(0, 0, 960, 540)>>)]}

\* the lines typed at a prompt, and the end of input
Lines ==
    {EOF, <<>>, <<" ">>, <<"0">>, <<"1">>, <<"2">>, <<"3">>, <<"5">>,
     <<"-", "1">>, <<"-", "3">>, <<"x">>, <<" ", "2", " ">>, <<"0", "2">>}

\* the keys pressed once the window is up
SetupKeys == {"escape", "r", "s", "1", "2", "n"}

\* the process as __init__ begins, with the displays as they are
InitSetup ==
    \E v \in SetupVariants :
        /\ Fresh(v)
        /\ W = 0 /\ H = 0
        /\ aspect = [n |-> 0, d |-> 1]
        /\ rect = NoRect(v)
        /\ rect0 = NoRect(v)
        /\ last = [NoLast EXCEPT !.op = "none"]
        /\ phase = "enumerate"
        /\ error = "none"
        /\ source_idx = <<>>
        /\ projector_idx = <<>>
        /\ primary_idx = <<>>
        /\ win_screen = <<>>
        /\ IF v = "pm"
           THEN \E q \in ScreenLists :
                    /\ screens = q.scr
                    /\ primary_screen = q.prim
                    /\ monitors = q.mons
           ELSE /\ screens = <<>>
                /\ primary_screen = 0
                /\ monitors \in MonitorLists

NextSetup ==
    \/ TkListMonitors
    \/ \E inp \in Lines : TkAskSource(inp)
    \/ \E inp \in Lines : TkAskProjector(inp)
    \/ Tk1Init
    \/ \E inp \in Lines : Tk1ChooseProjector(inp)
    \/ PmInit
    \/ \E k \in SetupKeys : phase = "setup" /\ TkKeyPress(k)
    \/ \E k \in SetupKeys : phase = "setup" /\ Tk1KeyPress(k)
    \/ \E k \in SetupKeys : phase = "setup" /\ PmKeyPress(k)

SpecSetup == InitSetup /\ [][NextSetup]_vars

-----------------------------------------------------------------------------
(* projector_mirror_tk.py: the capture thread and the draw callback *)

InitTk == \E win \in Windows, a \in Aspects : Constructed("tk", win, a)

NextTk ==
    \/ \E k \in PipeKeys : Tk1KeyPress(k)
    \/ Tk1CapStart
    \/ CapTest
    \/ \E ok \in BOOLEAN : Tk1CapGrab(ok)
    \/ Tk1CapPublish
    \/ \E e \in Elapsed : Tk1CapPace(e)
    \/ Tk1Draw
    \/ ProcessExit

SpecTk == InitTk /\ [][NextTk]_vars

-----------------------------------------------------------------------------
(* The region editor of projector_mirror_tk_v2.py on its own, over sequences *)
(* of gestures                                                               *)

\* source aspect ratios: 1920x1080 and 1024x768
DragAspects == {[n |-> 16, d |-> 9], [n |-> 4, d |-> 3]}

\* a press reaches the canvas only inside the window
InWindow(p) == 0 <= p[1] /\ p[1] < W /\ 0 <= p[2] /\ p[2] < H

\* where the button goes down: on the corners and in the body of the rect
DragPressPoints == {p \in RectPoints(rect) : InWindow(p)}

\* where the pointer is dragged to: next to the rect's top-left and
\* bottom-right corners, to the corners of the window, and far outside it
DragMovePoints ==
    {<<rect.x1 + 3, rect.y1 + 3>>, <<rect.x2 - 3, rect.y2 - 3>>,
     <<0, 0>>, <<W, H>>, FarPoint}

InitDrag == \E win \in Windows, a \in DragAspects :
                Constructed("tk_v2", win, a)

NextDrag ==
    \/ \E p \in DragPressPoints : TkMouseDownWithin(p[1], p[2], MaxDrags)
    \/ \E p \in DragMovePoints : TkMouseDragWithin(p[1], p[2], MaxDrags)
    \/ TkMouseUp
    \/ TkKeyPress("r")

SpecDrag == InitDrag /\ [][NextDrag]_vars

-----------------------------------------------------------------------------
(* The mirror widget of projector_mirror.py under resize events *)

\* source aspect ratios: 1920x1080, 1024x768, 2560x1080, and a primary
\* screen in portrait, 768x1024
ResizeAspects == {[n |-> 16, d |-> 9], [n |-> 4, d |-> 3], [n |-> 64, d |-> 27],
                  [n |-> 3, d |-> 4]}

\* the sizes of the resize events
ResizeWidths == {0, 1, 200, 355, 640, 800, 1000, 1067}
ResizeHeights == {0, 1, 112, 200, 360, 450, 600}

\* the widget at its sizeHint: h = 600, w = int(h * aspect_ratio)
InitResize ==
    \E a \in ResizeAspects :
        Constructed("pm", <<IntTrunc(MulN(600, a), MulD(600, a)), 600>>, a)

NextResize ==
    \/ \E w \in ResizeWidths, h \in ResizeHeights : PmResizeEvent(w, h)
    \/ PmKeyPress("escape")

SpecResize == InitResize /\ [][NextResize]_vars

-----------------------------------------------------------------------------
(* The centered-rectangle derivation on its own, over many windows *)

ConstructWidths == {50, 100, 190, 300, 400, 640, 1024, 1920}
ConstructHeights == {50, 100, 199, 200, 480, 768, 1080}
ConstructAspects == {[n |-> 16, d |-> 9], [n |-> 64, d |-> 27],
                     [n |-> 4, d |-> 3], [n |-> 1, d |-> 1],
                     [n |-> 3, d |-> 4]}

InitConstruct ==
    \E v \in EditorVariants, ww \in ConstructWidths, hh \in ConstructHeights,
       a \in ConstructAspects :
        /\ Attributes(v, <<ww, hh>>, a)
        /\ rect = NoRect(v)
        /\ rect0 = NoRect(v)
        /\ last = [NoLast EXCEPT !.op = "none"]

\* DragRectOverlay.__init__: self._reset_rect_centered()
V3Construct ==
    /\ variant = "v3" /\ last.op = "none"
    /\ rect' = V3ResetRectCentered(W, H, aspect)
    /\ rect0' = rect'
    /\ last' = NoLast
    /\ UNCHANGED <<variant, W, H, aspect, topoVars, gestureVars, mirroring,
                   closed, nOps, pipeVars>>

\* ProjectorMirrorApp.__init__: "Initial rect centered"
TkConstruct ==
    /\ variant \in TkVariants /\ last.op = "none"
    /\ rect' = TkCenteredRect(W, H, aspect, TkFloor)
    /\ rect0' = rect'
    /\ last' = NoLast
    /\ UNCHANGED <<variant, W, H, aspect, topoVars, gestureVars, mirroring,
                   closed, nOps, pipeVars>>

NextConstruct ==
    \/ V3Construct
    \/ TkConstruct
    \/ last.op # "none" /\ V3KeyPress("r")
    \/ last.op # "none" /\ TkKeyPress("r")

SpecConstruct == InitConstruct /\ [][NextConstruct]_vars

-----------------------------------------------------------------------------
(* Properties of the rectangle (projector_mirror_simple_v3.py) *)

\* x, y, width, height of the rect in either representation
RectX == IF variant = "v3" THEN rect.x ELSE rect.x1
RectY == IF variant = "v3" THEN rect.y ELSE rect.y1
RectW == IF variant = "v3" THEN rect.w ELSE rect.x2 - rect.x1
RectH == IF variant = "v3" THEN rect.h ELSE rect.y2 - rect.y1

\* the rect lies inside the window
Contained ==
    /\ 0 <= RectX /\ 0 <= RectY
    /\ RectX + RectW <= W /\ RectY + RectH <= H

\* w / h equals a up to one whole pixel in w or in h, which covers both
\* round() and int()
AspectWithinOne(w, h, a) ==
    \/ Abs(w * a.d - h * a.n) < a.d
    \/ Abs(h * a.n - w * a.d) < a.n

\* C1: in projector_mirror_simple_v3.py, in a window at least 50 wide and 50
\* high, the rect is inside the window after construction and after any
\* sequence of moves, corner resizes and resets
C1_Containment ==
    (variant = "v3" /\ W >= 50 /\ H >= 50) => Contained

\* C2: in projector_mirror_simple_v3.py the rect keeps the aspect ratio, up to
\* integer rounding, after every corner resize
C2_AspectAfterResize ==
    (variant = "v3" /\ last.op = "resize") => AspectWithinOne(rect.w, rect.h, aspect)

\* C3: in projector_mirror_simple_v3.py the rect is at least 50 wide and 50
\* high after every corner resize
C3_MinSizeAfterResize ==
    (variant = "v3" /\ last.op = "resize") => (rect.w >= 50 /\ rect.h >= 50)

\* a resize whose candidate height was below 50 and was raised to it
C3_Witness ==
    /\ variant = "v3" /\ last.op = "resize"
    /\ last.ch < 50 /\ rect.h = 50

\* the cursor is on the dragged corner's side of the fixed corner
OnOwnSide ==
    CASE last.anchor = "tl" -> last.dx < 0 /\ last.dy < 0
      [] last.anchor = "tr" -> last.dx > 0 /\ last.dy < 0
      [] last.anchor = "bl" -> last.dx < 0 /\ last.dy > 0
      [] last.anchor = "br" -> last.dx > 0 /\ last.dy > 0
      [] OTHER              -> FALSE

\* neither the size clamp nor the position clamp changed the last resize
NoClampApplied ==
    LET size == <<last.cw, last.ch>>
        p == V3Place(last.anchor, <<last.fx, last.fy>>, last.dx, last.dy, size)
    IN  /\ rect.w = last.cw /\ rect.h = last.ch
        /\ 0 <= p[1] /\ p[1] <= W - rect.w
        /\ 0 <= p[2] /\ p[2] <= H - rect.h

\* C8: in projector_mirror_simple_v3.py a corner resize with the cursor on the
\* dragged corner's side and no clamp applied leaves the opposite corner where
\* it was (to the pixel that QRect's right and bottom are short of x + width)
C8_OppositeCornerFixed ==
    (variant = "v3" /\ last.op = "resize" /\ OnOwnSide /\ NoClampApplied)
        => LET c == V3Fixed(rect, last.anchor)
           IN  Abs(c[1] - last.fx) <= 1 /\ Abs(c[2] - last.fy) <= 1

-----------------------------------------------------------------------------
(* The tie-break of the corner resize *)

\* the tie-break as specified: width from dx, unless the derived height
\* exceeds max(minH, dy), then height from dy
SpecTieBreak(minW, minH, a, dx, dy) ==
    LET cw == Max(minW, dx)
        ch == RoundHalfEven(DivN(cw, a), DivD(cw, a))
        hh == Max(minH, dy)
    IN  IF ch > hh THEN <<RoundHalfEven(MulN(hh, a), MulD(hh, a)), hh>>
                   ELSE <<cw, ch>>

\* C9 as stated: in both scripts the size chosen before clamping is the
\* specified tie-break of the distances |dx|, |dy| with the script's minimums
C9_SpecifiedTieBreak ==
    last.op = "resize" =>
        <<last.cw, last.ch>> =
            IF variant = "v3"
            THEN SpecTieBreak(50, 50, aspect, Abs(last.dx), Abs(last.dy))
            ELSE SpecTieBreak(80, 45, aspect, Abs(last.dx), Abs(last.dy))

\* C9: projector_mirror_simple_v3.py chooses the specified tie-break;
\* projector_mirror_tk_v2.py switches to the height as soon as the derived
\* height exceeds dy itself, and then uses max(MIN_H, dy)
C9_TieBreakPerScript ==
    last.op = "resize" =>
        LET dx == Abs(last.dx)
            dy == Abs(last.dy)
        IN  IF variant = "v3"
            THEN <<last.cw, last.ch>> = SpecTieBreak(50, 50, aspect, dx, dy)
            ELSE LET cw == Max(80, dx)
                     ch == RoundHalfEven(cw * aspect.d, aspect.n)
                     hh == Max(45, dy)
                 IN  /\ ch <= dy => <<last.cw, last.ch>> = <<cw, ch>>
                     /\ ch > dy => /\ last.ch = hh
                                   /\ last.cw = RoundHalfEven(hh * aspect.n, aspect.d)

\* a resize in projector_mirror_tk_v2.py where the two switch conditions
\* disagree: the derived height exceeds dy but not max(MIN_H, dy)
C9_Witness ==
    /\ variant = "tk_v2" /\ last.op = "resize"
    /\ LET ch == RoundHalfEven(Max(80, last.dx) * aspect.d, aspect.n)
       IN  last.dy < ch /\ ch <= 45

-----------------------------------------------------------------------------
(* Setup and Mirroring *)

\* C6: once mirroring, no event changes the rect
C6_FrozenInMirroring == [][mirroring => rect' = rect]_vars

\* mirroring was committed while a gesture that had moved or resized the rect
\* was still active
C6_Witness ==
    /\ mirroring /\ nOps > 0
    /\ dragging \/ resizing \/ dragging_mode # "none"

\* the commit action: the 's' key in Setup
CommitStep ==
    /\ ~mirroring
    /\ V3KeyPress("s") \/ TkKeyPress("s")

\* C7: the session starts in Setup, becomes mirroring only by the commit
\* action, and once mirroring stays mirroring
C7_SetupThenMirroring ==
    /\ ~mirroring
    /\ [][/\ mirroring => mirroring'
          /\ (~mirroring /\ mirroring') => CommitStep]_vars

\* the session was committed and then quit, after more keys in Mirroring
C7_Witness == mirroring /\ closed /\ nOps > 0

-----------------------------------------------------------------------------
(* The frame slot *)

\* C4: the slot holds at most one frame, which is the most recently published
\* one; a read returns that frame; no frame that was overwritten unread is
\* ever read or drawn
C4_LatestWins ==
    /\ latest_img # NoFrame => latest_img.seq = published
    /\ (ui_pc \in {"clear", "release"} /\ ui_img # NoFrame)
           => ui_img.seq = published
    /\ ui_img # NoFrame => ui_img.seq \notin dropped
    /\ \A i \in 1..Len(rendered) : rendered[i] \notin dropped

\* two frames were overwritten unread between two reads and the third was drawn
C4_Witness ==
    /\ {1, 2} \subseteq dropped
    /\ Len(rendered) >= 1 /\ rendered[Len(rendered)] = 3

\* C5: the frames drawn have strictly increasing publish numbers, and an
\* iteration that read an empty slot draws nothing
C5_RenderOnceInOrder ==
    /\ [](\A i \in 1..Len(rendered) :
             /\ rendered[i] >= 1
             /\ i > 1 => rendered[i - 1] < rendered[i])
    /\ [][(ui_pc = "render" /\ ui_img = NoFrame)
              => (rendered' = rendered /\ tk_frame' = tk_frame)]_vars

\* two frames were drawn, and an iteration has since read an empty slot
C5_Witness ==
    /\ Len(rendered) >= 2
    /\ ui_pc = "render" /\ ui_img = NoFrame

-----------------------------------------------------------------------------
(* The constructed rectangle *)

\* C10: for every window and aspect ratio the constructed rect has the aspect
\* ratio up to integer rounding and lies inside the window
C10_ConstructFits ==
    last.op = "construct" => (AspectWithinOne(RectW, RectH, aspect) /\ Contained)

-----------------------------------------------------------------------------
(* The size of the constructed rectangle *)

\* the rect is centered in the window, where it fits
Centered ==
    /\ RectW <= W => RectX = (W - RectW) \div 2
    /\ RectH <= H => RectY = (H - RectH) \div 2

-----------------------------------------------------------------------------
(* Move and reset *)

\* C12: in projector_mirror_simple_v3.py a clamped move of a rect that fits in
\* the window, to any requested position, leaves it with
\* 0 <= x <= W - width and 0 <= y <= H - height
C12_MoveStaysInside ==
    (variant = "v3" /\ last.op = "move" /\ rect.w <= W /\ rect.h <= H)
        => /\ 0 <= rect.x /\ rect.x <= W - rect.w
           /\ 0 <= rect.y /\ rect.y <= H - rect.h

\* a move requested to the far point (-10000, 99999) minus the grab offset
C12_Witness ==
    /\ variant = "v3" /\ last.op = "move"
    /\ last.px = FarPoint[1] /\ last.py = FarPoint[2]
    /\ rect.w <= W /\ rect.h <= H
    /\ rect.x = 0 /\ rect.y = H - rect.h

\* C13: a move (v3 _move_rect_clamped, Tk 'move' branch) leaves the rect's
\* width and height as they were
C13_MoveKeepsSize ==
    [][(nOps' = nOps + 1 /\ last'.op = "move")
           => (RectW' = RectW /\ RectH' = RectH)]_vars

\* a Tk move that was stopped by the window's edge
C13_Witness ==
    /\ variant = "tk_v2" /\ last.op = "move"
    /\ RectX = 0 /\ RectY = H - RectH
    /\ rect # rect0

\* C14: a reset, from any state of Setup and however often repeated, gives the
\* rect that construction gave
C14_ResetIsConstruct ==
    last.op = "reset" => rect = rect0

\* a reset after a pointer move that had changed the rect
C14_Witness ==
    /\ last.op = "reset" /\ nOps > 0 /\ ~mirroring

-----------------------------------------------------------------------------
(* Failing grabs *)

\* C15: a failing grab (projector_mirror_tk_fast.py capture_loop_dx,
\* projector_mirror_simple_v3.py _grab_frame) stores nothing and leaves the
\* slot and the frame on screen as they were; nothing is stored while the
\* failures last; the loop sleeps the backoff before it grabs again
C15_FailedGrabLeavesSlot ==
    /\ [][(variant \in {"tk_fast", "v3"} /\ fails' = fails + 1)
              => /\ latest_img' = latest_img /\ published' = published
                 /\ frame_img' = frame_img /\ tk_frame' = tk_frame
                 /\ variant = "tk_fast" => cap_pc' = "backoff"
                 /\ variant = "v3" => backoff_ms' = 10]_vars
    /\ [][(variant \in {"tk_fast", "v3"} /\ fails > 0 /\ fails' > 0)
              => (published' = published /\ frame_img' = frame_img)]_vars
    /\ [][(variant = "tk_fast" /\ cap_pc = "backoff")
              => /\ nGrabs' = nGrabs
                 /\ \/ cap_pc' \in {"backoff", "killed"}
                    \/ cap_pc' = "test" /\ backoff_ms' = 5]_vars

\* two grabs in a row have failed while the slot holds the frame stored before
C15_Witness ==
    /\ variant = "tk_fast" /\ fails >= 2
    /\ latest_img # NoFrame /\ cap_pc = "backoff"

\* C16: in projector_mirror_tk_v2.py a failed grab does not end the capture
\* loop
C16_FailedGrabKeepsLoop ==
    variant = "tk_v2" => cap_pc # "dead"

\* C17: there is a number N of failed grabs in a row after which the loop
\* (projector_mirror_tk_fast.py, projector_mirror.py) issues no further grab;
\* stated for the largest N the grab bound lets a further grab follow, which
\* is implied by every smaller N
C17_PausesAfterStreak ==
    [][(variant \in {"tk_fast", "pm"} /\ fails >= MaxGrabs - 1)
           => nGrabs' = nGrabs]_vars

-----------------------------------------------------------------------------
(* Pause, stop and the lock *)

\* C18: in projector_mirror.py no step taken while paused grabs or changes the
\* frame shown, the timer stays active, the space key flips the pause, and a
\* tick that finds the pipeline not paused grabs
C18_PauseSuspendsSampling ==
    /\ [](variant = "pm" => timer_on)
    /\ [][(variant = "pm" /\ paused)
              => (nGrabs' = nGrabs /\ frame_img' = frame_img)]_vars
    /\ [][PmKeyPress("space") => paused' = ~paused]_vars
    /\ [][(~paused /\ \E ok \in BOOLEAN : PmGrabAndUpdate(ok))
              => nGrabs' = nGrabs + 1]_vars

\* paused after a frame was shown, with grabs still to come
C18_Witness ==
    /\ variant = "pm" /\ paused /\ ~closed
    /\ frame_img # NoFrame /\ nGrabs < MaxGrabs

\* C19: in projector_mirror_tk_v2.py, once the stop flag is set the capture
\* thread stores at most one more frame and leaves its loop at the next loop
\* test, and the UI update loop neither draws nor runs again
C19_StopWithinOneCycle ==
    /\ [](variant = "tk_v2" => stop_pubs <= 1)
    /\ [][(variant = "tk_v2" /\ stop_flag /\ cap_pc = "test")
              => cap_pc' \in {"done", "killed"}]_vars
    /\ [][(variant = "tk_v2" /\ stop_flag)
              => (rendered' = rendered /\ tk_frame' = tk_frame
                  /\ ui_pc' = ui_pc)]_vars

\* the stop flag was set in mid-cycle: one more frame was stored and the
\* thread left its loop
C19_Witness ==
    /\ variant = "tk_v2" /\ stop_flag
    /\ stop_pubs = 1 /\ cap_pc = "done"

\* C20: in projector_mirror_tk_v2.py and projector_mirror_tk_fast.py the
\* capture thread holds the lock exactly while it stores, the UI loop exactly
\* while it reads and clears (so never both, and never while grabbing,
\* rescaling or drawing), and the slot changes only under the lock
C20_LockDiscipline ==
    /\ [](variant \in TkVariants =>
            /\ cap_pc \in {"store", "release"} <=> frame_lock = "capture"
            /\ ui_pc \in {"read", "clear", "release"} <=> frame_lock = "ui")
    /\ [][latest_img' # latest_img
              => (frame_lock # "free" /\ frame_lock' = frame_lock)]_vars
    /\ [][ui_img' \notin {ui_img, NoFrame} => frame_lock = "ui"]_vars

\* the capture thread waits for the lock while the UI loop is inside
C20_Witness ==
    /\ variant \in TkVariants
    /\ cap_pc = "acquire" /\ frame_lock = "ui" /\ ui_pc = "clear"
    /\ latest_img # NoFrame

-----------------------------------------------------------------------------
(* One producer *)

\* C21: in projector_mirror_tk_v2.py and projector_mirror_tk_fast.py a capture
\* thread is started only by the commit in Setup and only when none was
\* started before, no key in Mirroring starts one, a started thread is never
\* replaced, and a frame enters the slot only in the store step of that thread
C21_OneProducer ==
    /\ [](variant \in TkVariants => (cap_pc # "unstarted" <=> mirroring))
    /\ [][(cap_pc' = "start" /\ cap_pc # "start")
              => (cap_pc = "unstarted" /\ ~mirroring /\ TkKeyPress("s"))]_vars
    /\ [][(mirroring /\ \E k \in Keys : TkKeyPress(k))
              => (cap_pc' = cap_pc /\ mirroring')]_vars
    /\ [][latest_img' \notin {latest_img, NoFrame}
              => (cap_pc = "store" /\ latest_img' = cap_img)]_vars

\* the thread has stored its third frame, in a session that is still open
C21_Witness ==
    /\ variant \in TkVariants /\ mirroring /\ ~closed
    /\ published = 3 /\ cap_pc = "pace"

-----------------------------------------------------------------------------
(* Hit test *)

\* the corners of the rect, by name, in either representation
Corner(r, c) ==
    LET bx == Box(r)
    IN  CASE c = "tl" -> <<bx.l, bx.t>>
          [] c = "tr" -> <<bx.r, bx.t>>
          [] c = "bl" -> <<bx.l, bx.b>>
          [] OTHER    -> <<bx.r, bx.b>>

\* the point lies in the handle zone drawn at the corner: the square of side
\* 14 placed at corner - 7 (v3), the square corner +- 10 (Tk)
InHandleZone(r, c, px, py) ==
    LET cx == Corner(r, c)[1]
        cy == Corner(r, c)[2]
    IN  IF variant = "v3"
        THEN /\ cx - 7 <= px /\ px <= cx + 6
             /\ cy - 7 <= py /\ py <= cy + 6
        ELSE /\ cx - 10 <= px /\ px <= cx + 10
             /\ cy - 10 <= py /\ py <= cy + 10

\* the point lies in the body of the rect: v3 with its edges, Tk without
InBody(r, px, py) ==
    IF variant = "v3"
    THEN /\ r.x <= px /\ px < r.x + r.w /\ r.y <= py /\ py < r.y + r.h
    ELSE /\ r.x1 < px /\ px < r.x2 /\ r.y1 < py /\ py < r.y2

CornerNames == {"tl", "tr", "bl", "br"}

\* the gesture a press at (px, py) has to start: a resize at a corner whose
\* zone holds the point, else a move if the body holds it, else none
PressStarted(px, py) ==
    LET zones == {c \in CornerNames : InHandleZone(rect, c, px, py)}
        want == IF zones # {} THEN zones
                ELSE IF InBody(rect, px, py) THEN {"move"} ELSE {"none"}
    IN  IF variant = "v3"
        THEN /\ resizing' = (zones # {})
             /\ zones # {} => resize_anchor' \in zones
             /\ dragging' = (want = {"move"})
        ELSE dragging_mode' \in want

\* C24: a left press in Setup at a point in a handle zone starts a resize at
\* a corner whose zone holds the point, even where the point is in the body
\* too, and never a move; at a point in the body and in no zone it starts a
\* move; at a point in neither it starts nothing
C24_HandlesBeforeBody ==
    [][(~lbutton /\ lbutton' /\ ~mirroring)
           => \A p \in PressPoints :
                  (V3MousePress("left", p[1], p[2]) \/ TkMouseDown(p[1], p[2]))
                      => PressStarted(p[1], p[2])]_vars

\* a press three pixels inside the top-left corner, which is in the body and
\* in the handle zone, started a resize
C24_Witness ==
    /\ variant = "v3" /\ resizing /\ resize_anchor = "tl" /\ nOps = 0
    /\ InBody(rect, drag_offset[1], drag_offset[2])
    /\ InHandleZone(rect, "tl", drag_offset[1], drag_offset[2])

-----------------------------------------------------------------------------
(* Gestures *)

\* a move or resize gesture is active
GestureActive == dragging \/ resizing \/ dragging_mode # "none"

\* C25: the rect changes only in a pointer move taken while a gesture is
\* active, or in a reset in Setup; while the button is up no gesture is
\* active, so no pointer move after a release changes the rect before the
\* next press
C25_OnlyGestureOrReset ==
    /\ [](~lbutton => ~GestureActive)
    /\ [][rect' # rect
              => \/ /\ GestureActive /\ lbutton /\ ~mirroring
                     /\ nOps' = nOps + 1 /\ last'.op \in {"move", "resize"}
                 \/ /\ ~mirroring /\ last'.op = "reset"
                     /\ dragging' = dragging /\ nOps' = nOps]_vars

\* the button was released after a move that had changed the rect
C25_Witness ==
    /\ nOps = 1 /\ last.op = "move" /\ rect # rect0
    /\ ~lbutton /\ ~GestureActive /\ ~mirroring

-----------------------------------------------------------------------------
(* The target rate *)

\* the scripts whose keys change the target rate, and their steps
RateVariants == {"pm", "tk_fast"}
RateStep == IF variant = "pm" THEN 5 ELSE 10

\* C22 as stated: in projector_mirror.py and projector_mirror_tk_fast.py the
\* rate is within 10..120 in every state, an increase adds the step up to 120
\* and a decrease subtracts it down to 10
C22_RateWithin10To120 ==
    variant \in RateVariants =>
        /\ 10 <= fps /\ fps <= 120
        /\ RateUp(variant, fps) = Min(120, fps + RateStep)
        /\ RateDown(variant, fps) = Max(10, fps - RateStep)

\* C22: the rate is within 10..120 in every state; projector_mirror.py moves
\* it in steps of 5 and saturates at 10 and at 120;
\* projector_mirror_tk_fast.py moves it in steps of 10 and saturates at 30
\* and at 120, so its rate is never below 30
C22_RateWithinScriptRange ==
    variant \in RateVariants =>
        LET lo == IF variant = "pm" THEN 10 ELSE 30
        IN  /\ 10 <= fps /\ fps <= 120
            /\ lo <= fps
            /\ RateUp(variant, fps) = Min(120, fps + RateStep)
            /\ RateDown(variant, fps) = Max(lo, fps - RateStep)

\* projector_mirror_tk_fast.py was taken down from 90 to its floor
C22_Witness ==
    /\ variant = "tk_fast" /\ fps = 30 /\ ~closed

-----------------------------------------------------------------------------
(* Pacing *)

\* C23: in the capture loops of projector_mirror_tk_v2.py and
\* projector_mirror_tk_fast.py, a cycle that spent less than the loop's
\* budget of 1 / cap_interval seconds sleeps the rest of the budget, a cycle
\* that spent the budget or more does not sleep, and no sleep is negative
C23_PacingNeverNegative ==
    (variant \in TkVariants /\ pace # NoPace) =>
        LET rest == Second - pace.spent * cap_interval
        IN  /\ pace.arg >= 0
            /\ pace.arg = Max(0, rest)
            /\ pace.slept <=> rest > 0

\* a cycle of projector_mirror_tk_fast.py that spent its budget to the
\* microsecond, and did not sleep
C23_Witness ==
    /\ variant = "tk_fast" /\ pace # NoPace
    /\ pace.spent * cap_interval = Second /\ ~pace.slept

-----------------------------------------------------------------------------
(* Configuration errors *)

\* C26: a configuration error (fewer displays than required, or an invalid
\* display index for source or projector) is rejected without entering
\* Mirroring and leaves the session in Setup: once an error was met the
\* session is not mirroring and the process has not ended
C26_ErrorKeepsSetup ==
    error # "none" => (~mirroring /\ ~Ended)

-----------------------------------------------------------------------------
(* The virtual desktop *)

\* C27: in a session of projector_mirror_tk_v2.py or
\* projector_mirror_tk_fast.py that reached Setup, neither the source display
\* nor the projector display is entry 0 of the monitor list, whatever was
\* typed at the prompts
C27_VirtualExcluded ==
    (variant \in TkVariants /\ phase = "setup") =>
        /\ PyPos(monitors, source_idx[1]) # 0
        /\ PyPos(monitors, projector_idx[1]) # 0

-----------------------------------------------------------------------------
(* The primary display *)

\* the physical monitors a script takes for the primary: in the Tk scripts
\* those at the origin, in projector_mirror.py those with the geometry of
\* the Qt primary screen
Flagged ==
    IF variant = "pm"
    THEN {i \in Physical(monitors) :
             /\ monitors[i + 1].left = screens[primary_screen].x
             /\ monitors[i + 1].top = screens[primary_screen].y
             /\ monitors[i + 1].width = screens[primary_screen].width
             /\ monitors[i + 1].height = screens[primary_screen].height}
    ELSE {i \in Physical(monitors) :
             monitors[i + 1].left = 0 /\ monitors[i + 1].top = 0}

MonitorArea(i) == monitors[i + 1].width * monitors[i + 1].height

\* C28 as stated: the primary index is the first flagged physical display,
\* the first physical display if none is flagged, and always an existing
\* physical display
C28_FallbackFirstEntry ==
    primary_idx # <<>> =>
        /\ primary_idx[1] \in Physical(monitors)
        /\ primary_idx[1] = IF Flagged # {} THEN Least(Flagged) ELSE 1

\* C28: the primary index is the first flagged physical display; if none is
\* flagged it is, in projector_mirror_tk_v2.py and projector_mirror_tk_fast.py,
\* the first physical display among those of the largest area, and in
\* projector_mirror_tk.py and projector_mirror.py the first physical display;
\* it is always an existing physical display
C28_FallbackPerScript ==
    primary_idx # <<>> =>
        LET p == primary_idx[1]
        IN  /\ p \in Physical(monitors)
            /\ Flagged # {} => (p \in Flagged /\ \A j \in Flagged : p <= j)
            /\ Flagged = {} =>
                  IF variant \in TkVariants
                  THEN \A j \in Physical(monitors) :
                          /\ MonitorArea(p) >= MonitorArea(j)
                          /\ MonitorArea(j) = MonitorArea(p) => p <= j
                  ELSE p = 1

\* no monitor at the origin, and the second physical monitor, the larger
\* one, was taken
C28_Witness ==
    /\ variant \in TkVariants /\ Flagged = {}
    /\ primary_idx = <<2>>
    /\ MonitorArea(2) > MonitorArea(1)

-----------------------------------------------------------------------------
(* The preferred screen *)

\* the screens other than the primary
NonPrimary == {i \in 1..Len(screens) : i # primary_screen}

\* C29: at startup and on key '2' the window of projector_mirror.py goes to
\* the first screen in enumeration order that is not the primary, and to the
\* primary when there is no other screen
C29_FirstNonPrimary ==
    [][(PmInit \/ PmKeyPress("2")) =>
          win_screen' = <<IF NonPrimary # {} THEN Least(NonPrimary)
                                            ELSE primary_screen>>]_vars

-----------------------------------------------------------------------------
(* The capture handle *)

\* C30: in the threaded scripts the handle used for grab was made inside the
\* capture thread, and no other thread has made or called it
C30_HandleInCaptureThread ==
    nGrabs > 0 =>
        /\ handle_made_by = "capture"
        /\ handle_used_by = {"capture"}

-----------------------------------------------------------------------------
(* One gesture at a time *)

\* C36: in projector_mirror_simple_v3.py dragging and resizing are never both
\* true, and resize_anchor is a corner name exactly when resizing is true
C36_OneGesture ==
    variant = "v3" =>
        /\ ~(dragging /\ resizing)
        /\ resizing <=> resize_anchor \in CornerNames

\* a resize gesture that has resized the rect and is still held
C36_Witness ==
    /\ variant = "v3" /\ resizing /\ ~dragging
    /\ resize_anchor \in CornerNames /\ last.op = "resize" /\ lbutton

-----------------------------------------------------------------------------
(* The rectangle of projector_mirror_tk_v2.py over sequences of gestures *)

\* C31: in projector_mirror_tk_v2.py the rect never inverts or degenerates
\* in Setup: x2 > x1 and y2 > y1 after every sequence of moves, corner
\* resizes and resets
C31_NeverInverts ==
    (variant = "tk_v2" /\ ~mirroring) =>
        (rect.x2 > rect.x1 /\ rect.y2 > rect.y1)

\* a second gesture has resized a rect that an earlier gesture had changed
C31_Witness ==
    /\ variant = "tk_v2" /\ ~mirroring
    /\ nOps >= 2 /\ last.op = "resize" /\ rect # rect0
    /\ rect.x2 > rect.x1 /\ rect.y2 > rect.y1

\* C32: in projector_mirror_tk_v2.py the rect is at least MIN_W wide and
\* MIN_H high after every corner resize, for every source aspect ratio
C32_MinSizeAfterResize ==
    (variant = "tk_v2" /\ last.op = "resize") =>
        (rect.x2 - rect.x1 >= MIN_W /\ rect.y2 - rect.y1 >= MIN_H)

\* C37: in projector_mirror_tk_v2.py a pointer move of a move gesture to the
\* position of the previous pointer event leaves the rect unchanged, inside
\* and outside the window
C37_SamePositionNoMove ==
    [][(/\ variant = "tk_v2" /\ ~mirroring /\ dragging_mode = "move"
        /\ nOps' = nOps + 1
        /\ last'.px = prev_mouse[1] /\ last'.py = prev_mouse[2])
       => rect' = rect]_vars

-----------------------------------------------------------------------------
(* The mirror widget *)

\* C33: after a resize event of size (w, h) the mirror widget of
\* projector_mirror.py has the size (w, int(w / aspect)) or
\* (int(h * aspect), h), the one that differs less from (w, h), so that its
\* height is its width over the aspect, or its width its height times the
\* aspect, truncated
C33_ResizeKeepsAspect ==
    (variant = "pm" /\ last.op = "resize_event") =>
        LET w == last.px
            h == last.py
            byWidth == <<w, IntTrunc(w * aspect.d, aspect.n)>>
            byHeight == <<IntTrunc(h * aspect.n, aspect.d), h>>
            dist(s) == Abs(s[1] - w) + Abs(s[2] - h)
        IN  /\ <<W, H>> \in {byWidth, byHeight}
            /\ dist(<<W, H>>) <= dist(byWidth)
            /\ dist(<<W, H>>) <= dist(byHeight)
            /\ \/ H = IntTrunc(W * aspect.d, aspect.n)
               \/ W = IntTrunc(H * aspect.n, aspect.d)

\* a wide and low event size on a portrait source, for which the width was
\* adjusted
C33_Witness ==
    /\ variant = "pm" /\ last.op = "resize_event"
    /\ aspect = [n |-> 3, d |-> 4]
    /\ last.px = 1000 /\ last.py = 112
    /\ W = 84 /\ H = 112

-----------------------------------------------------------------------------
(* The size and the place of the frames *)

\* the size the capture loop resizes to
RectSize == <<Max(1, rect.x2 - rect.x1), Max(1, rect.y2 - rect.y1)>>

\* C34: in projector_mirror_tk_v2.py and projector_mirror_tk_fast.py every
\* frame in the slot and the frame on the canvas have the size
\* max(1, x2 - x1) by max(1, y2 - y1) of the committed rect, and the frame
\* on the canvas has its top-left at the rect's top-left
C34_FrameFitsRect ==
    variant \in TkVariants =>
        /\ latest_img # NoFrame => <<latest_img.w, latest_img.h>> = RectSize
        /\ tk_frame # NoFrame =>
              /\ <<tk_frame.w, tk_frame.h>> = RectSize
              /\ image_id = ImageAt(rect.x1, rect.y1)

\* the second frame is on the canvas and the third waits in the slot
C34_Witness ==
    /\ variant \in TkVariants /\ mirroring
    /\ tk_frame.seq = 2 /\ latest_img.seq = 3
    /\ <<latest_img.w, latest_img.h>> = RectSize

-----------------------------------------------------------------------------
(* Nothing is captured in Setup *)

\* C35: in the scripts with a region editor (projector_mirror_simple_v3.py,
\* projector_mirror_tk_v2.py, projector_mirror_tk_fast.py), while the session
\* is in Setup no grab has been issued, no capture thread has started, the
\* frame slot is empty and no frame has been shown
C35_NoCaptureBeforeCommit ==
    (variant \in EditorVariants \cup TkVariants /\ ~mirroring) =>
        /\ nGrabs = 0
        /\ cap_pc = "unstarted"
        /\ latest_img = NoFrame /\ published = 0
        /\ frame_img = NoFrame /\ tk_frame = NoFrame
        /\ rendered = <<>>

\* a session still in Setup after a reset, with the UI update loop idle
C35_Witness ==
    /\ variant \in TkVariants /\ ~mirroring /\ ~closed
    /\ last.op = "reset" /\ ui_pc = "idle" /\ nGrabs = 0

-----------------------------------------------------------------------------
(* The target rate and the pacing *)

\* C38: in projector_mirror_tk_fast.py every capture cycle begins with the
\* budget 1 / (the target rate at that moment), so that a change of the rate
\* made in Mirroring paces every cycle that starts after it
C38_PacingFollowsRate ==
    [][(variant = "tk_fast" /\ cap_pc = "test" /\ cap_pc' = "grab")
       => cap_interval' = fps']_vars

====
